---- MODULE Spec2Model ----
(***************************************************************************)
(* Model of the HTTP response cache: the middleware of the cache package   *)
(* (Client.Middleware, key generation, entry codec) running against the    *)
(* in-memory adapter (adapter/memory/memory.go: Get, Set, Release, evict). *)
(*                                                                         *)
(* Two specifications share the variables:                                 *)
(*   Spec        requests served by the middleware over one shared         *)
(*               in-memory adapter, under two workloads: two workers       *)
(*               serving GET requests for one resource concurrently, and   *)
(*               one worker serving GET, POST and PUT requests in turn;    *)
(*   SpecAdapter threads calling Get, Set and Release on the adapter       *)
(*               directly, with arbitrary payloads and clock readings.     *)
(***************************************************************************)
EXTENDS Integers, Sequences, FiniteSets, TLC

VARIABLES
  store,      \* Adapter.store: map[uint64][]byte, a function on the keys present
  cur,        \* Adapter.storage.cur: the byte counter
  cfg,        \* the Client's and the Adapter's settings, fixed at construction
  now,        \* the reading time.Now() returns
  reqs,       \* per worker: the request it is serving and where it stands
  arrivals,   \* number of requests accepted so far
  downCount,  \* number of invocations of the downstream handler so far
  load,       \* the workload: which workers serve which request shapes
  fresh,      \* history: per key, the latest population by a miss, until the key
              \* is released or evicted
  mutex       \* Adapter.mutex: the thread holding the write lock (0: none) and
              \* the threads holding the read lock

vars == <<store, cur, cfg, now, reqs, arrivals, downCount, load, fresh, mutex>>

(***************************************************************************)
(* Bounds of the model.                                                    *)
(***************************************************************************)
MaxArrivals == 3
MaxTime == 3
TTL == 1
MaxOps == 4
\* the byte-size budget of the adapters that have one
StorageBudget == 7

\* the longest list of options a constructor is called with
MaxOptions == 3


----------------------------------------------------------------------------
(***************************************************************************)
(* Byte strings are sequences of byte values.                              *)
(***************************************************************************)
QMark == 63
Amp == 38
EqSign == 61

RECURSIVE Less(_, _)
\* s < t for Go strings: bytewise lexicographic order
Less(s, t) ==
  IF t = <<>> THEN FALSE
  ELSE IF s = <<>> THEN TRUE
  ELSE IF Head(s) # Head(t) THEN Head(s) < Head(t)
  ELSE Less(Tail(s), Tail(t))

RECURSIVE Insert(_, _)
Insert(x, sorted) ==
  IF sorted = <<>> THEN <<x>>
  ELSE IF Less(Head(sorted), x) THEN <<Head(sorted)>> \o Insert(x, Tail(sorted))
  ELSE <<x>> \o sorted

RECURSIVE SortStrings(_)
\* sort.Slice(param, func(i, j) bool { return param[i] < param[j] })
SortStrings(ss) ==
  IF ss = <<>> THEN <<>> ELSE Insert(Head(ss), SortStrings(Tail(ss)))

RECURSIVE SetToSortedSeq(_)
SetToSortedSeq(S) ==
  IF S = {} THEN <<>>
  ELSE LET m == CHOOSE x \in S : \A y \in S \ {x} : Less(x, y)
       IN  <<m>> \o SetToSortedSeq(S \ {m})

\* strings.Cut(s, sep): <<before, after>>; after is empty when sep is absent
CutAt(s, sep) ==
  IF \E i \in 1..Len(s) : s[i] = sep
  THEN LET i == CHOOSE i \in 1..Len(s) : s[i] = sep /\ \A j \in 1..(i - 1) : s[j] # sep
       IN  <<SubSeq(s, 1, i - 1), SubSeq(s, i + 1, Len(s))>>
  ELSE <<s, <<>>>>

RECURSIVE SplitOn(_, _)
\* strings.Cut repeated: the segments of s between occurrences of sep
SplitOn(s, sep) ==
  LET c == CutAt(s, sep)
  IN  IF \E i \in 1..Len(s) : s[i] = sep
      THEN <<c[1]>> \o SplitOn(c[2], sep)
      ELSE <<s>>

RECURSIVE Join(_, _)
Join(ss, sep) ==
  IF ss = <<>> THEN <<>>
  ELSE IF Len(ss) = 1 THEN Head(ss)
  ELSE Head(ss) \o <<sep>> \o Join(Tail(ss), sep)

----------------------------------------------------------------------------
(***************************************************************************)
(* net/url as the middleware uses it.  A URL is [path, rawQuery].          *)
(***************************************************************************)

\* url.ParseQuery: the key=value pairs in order of appearance; empty
\* segments are skipped, a segment without "=" has the empty value
QueryPairs(raw) ==
  LET segs == SelectSeq(SplitOn(raw, Amp), LAMBDA s : s # <<>>)
  IN  [i \in 1..Len(segs) |-> CutAt(segs[i], EqSign)]

\* URL.Query(): url.Values, a map from name to the values in order
Query(raw) ==
  LET ps == QueryPairs(raw)
      names == {ps[i][1] : i \in 1..Len(ps)}
      vals(n) == LET mine == SelectSeq(ps, LAMBDA p : p[1] = n)
                 IN  [i \in 1..Len(mine) |-> mine[i][2]]
  IN  [n \in names |-> vals(n)]

\* Values.Encode(): names in sorted order, each name's values in map order
Encode(params) ==
  LET names == SetToSortedSeq(DOMAIN params)
      one(n) == Join([i \in 1..Len(params[n]) |-> n \o <<EqSign>> \o params[n][i]], Amp)
  IN  Join([i \in 1..Len(names) |-> one(names[i])], Amp)

\* URL.String() for a URL with a path and a query
URLString(u) ==
  IF u.rawQuery = <<>> THEN u.path ELSE u.path \o <<QMark>> \o u.rawQuery

\* the URL left as it was received
sortURLParamsKeepOrder(u) == u

sortURLParams(u) ==
  LET params == Query(u.rawQuery)
      sorted == [n \in DOMAIN params |-> SortStrings(params[n])]
  IN  [u EXCEPT !.rawQuery = Encode(sorted)]

----------------------------------------------------------------------------
(***************************************************************************)
(* hash/fnv New64a.  A uint64 is four 16-bit limbs, low limb first, so     *)
(* that the arithmetic is exact modulo 2^64.                               *)
(***************************************************************************)
Limb == 65536

RECURSIVE Xor(_, _, _)
\* a xor b on n bits
Xor(a, b, n) ==
  IF n = 0 THEN 0
  ELSE (((a % 2) + (b % 2)) % 2) + 2 * Xor(a \div 2, b \div 2, n - 1)

\* offset64 = 14695981039346656037 = 0xcbf29ce484222325
OffsetBasis == <<8997, 33826, 40164, 52210>>

\* h * prime64 mod 2^64, prime64 = 1099511628211 = 2^40 + 435
MulPrime(h) ==
  LET p0 == h[1] * 435
      p1 == h[2] * 435 + (p0 \div Limb)
      p2 == h[3] * 435 + (p1 \div Limb) + ((h[1] % 256) * 256)
      p3 == h[4] * 435 + (p2 \div Limb) + ((h[2] % 256) * 256) + (h[1] \div 256)
  IN  <<p0 % Limb, p1 % Limb, p2 % Limb, p3 % Limb>>

\* one byte of sum64a.Write: hash ^= uint64(c); hash *= prime64
FnvStep(h, c) ==
  CHOOSE r \in {MulPrime(x) : x \in {<<Xor(h[1] % 256, c, 8) + 256 * (h[1] \div 256),
                                        h[2], h[3], h[4]>>}} : TRUE

RECURSIVE Fnv1a(_, _)
\* hash.Write(bytes) on a hash in state h; the bytes are absorbed left to
\* right, the recursion splits them in halves
Fnv1a(h, bytes) ==
  LET n == Len(bytes)
  IN  IF n = 0 THEN h
      ELSE IF n = 1 THEN CHOOSE r \in {FnvStep(x, bytes[1]) : x \in {h}} : TRUE
      ELSE CHOOSE r \in {Fnv1a(x, SubSeq(bytes, (n \div 2) + 1, n))
                           : x \in {Fnv1a(h, SubSeq(bytes, 1, n \div 2))}} : TRUE

generateKey(URL) == Fnv1a(OffsetBasis, URL)

\* a key that leaves the body out
generateKeyWithBodyURLOnly(URL, body) == Fnv1a(OffsetBasis, URL)

generateKeyWithBody(URL, body) == Fnv1a(OffsetBasis, URL \o body)

\* uint64(0)
KeyZero == <<0, 0, 0, 0>>

----------------------------------------------------------------------------
(***************************************************************************)
(* The entry codec.  A Response is                                         *)
(*   [Value, Header, Expiration, LastAccess, Frequency];                   *)
(* Value is a byte string with a nil flag, Header a set of header names    *)
(* with a nil flag, times are clock readings.  The gob wire form is the    *)
(* sequence of <<field number, content>> of the fields that are not zero:  *)
(* gob does not transmit a zero-valued field, and the decoder leaves the   *)
(* fields it did not receive at their zero value.                          *)
(***************************************************************************)

\* time.Time{}
ZeroTime == 0

NilBytes == [nil |-> TRUE, b |-> <<>>]
BytesOf(b) == [nil |-> FALSE, b |-> b]
NilHeader == [nil |-> TRUE, m |-> {}]
HeaderOf(names) == [nil |-> FALSE, m |-> names]

ZeroResponse ==
  [Value |-> NilBytes, Header |-> NilHeader, Expiration |-> ZeroTime,
   LastAccess |-> ZeroTime, Frequency |-> 0]

\* Response.Bytes(): gob encoding
ResponseBytes(r) ==
  (IF Len(r.Value.b) = 0 THEN <<>> ELSE << <<1, r.Value.b>> >>)
  \o (IF r.Header.nil THEN <<>> ELSE << <<2, r.Header.m>> >>)
  \o (IF r.Expiration = ZeroTime THEN <<>> ELSE << <<3, r.Expiration>> >>)
  \o (IF r.LastAccess = ZeroTime THEN <<>> ELSE << <<4, r.LastAccess>> >>)
  \o (IF r.Frequency = 0 THEN <<>> ELSE << <<5, r.Frequency>> >>)

\* bytes that are no gob stream: Decode fails on them
Malformed == << <<0, 0>> >>

RECURSIVE DecodeInto(_, _)
DecodeInto(r, wire) ==
  IF wire = <<>> THEN r
  ELSE LET f == Head(wire)[1]
           c == Head(wire)[2]
           r2 == CASE f = 1 -> [r EXCEPT !.Value = BytesOf(c)]
                   [] f = 2 -> [r EXCEPT !.Header = HeaderOf(c)]
                   [] f = 3 -> [r EXCEPT !.Expiration = c]
                   [] f = 4 -> [r EXCEPT !.LastAccess = c]
                   [] f = 5 -> [r EXCEPT !.Frequency = c]
                   [] OTHER -> r
       IN  DecodeInto(r2, Tail(wire))

RECURSIVE Decodable(_)
\* the fields dec.Decode(&r) has stored in r when it returns: all of them, or,
\* on an error, those before the field it could not decode
Decodable(b) ==
  IF b = <<>> \/ Head(b)[1] \notin 1..5 THEN <<>>
  ELSE <<Head(b)>> \o Decodable(Tail(b))

\* a decoder that drops the headers
BytesToResponseNoHeader(b) ==
  [DecodeInto(ZeroResponse, Decodable(b)) EXCEPT !.Header = NilHeader]

\* BytesToResponse: the error of dec.Decode is dropped and r returned as the
\* decoder left it
BytesToResponse(b) == DecodeInto(ZeroResponse, Decodable(b))

RECURSIVE BytesLen(_)
\* len(response): one byte per field sent plus the length of its content
BytesLen(b) ==
  IF b = <<>> THEN 0
  ELSE LET f == Head(b)[1]
           c == Head(b)[2]
       IN  1 + (CASE f = 1 -> Len(c) [] f = 2 -> Cardinality(c) [] OTHER -> 1)
             + BytesLen(Tail(b))

----------------------------------------------------------------------------
(***************************************************************************)
(* The in-memory adapter (adapter/memory/memory.go).                       *)
(***************************************************************************)

\* the initial value of frequency in evict
MaxFrequency == 2147483647

\* storageControl.add
StorageAdd(c, v) == IF v >= 0 THEN c + v ELSE c

\* storageControl.del
StorageDel(c, v) == IF v >= 0 THEN (IF c - v < 0 THEN 0 ELSE c - v) ELSE c

\* storageControl.shouldEvict
shouldEvict(max, c, newBytes) ==
  IF max <= 0 THEN FALSE ELSE (c + newBytes < 0) \/ (c + newBytes > max)

\* the orders in which `for k, v := range a.store` may visit the keys
RangeOrders(st) ==
  LET n == Cardinality(DOMAIN st)
  IN  {o \in [1..n -> DOMAIN st] : \A i, j \in 1..n : i # j => o[i] # o[j]}

\* a delete that empties the map
RemoveAll(st, k) == <<>>

\* delete(a.store, k)
Remove(st, k) == [x \in (DOMAIN st) \ {k} |-> st[x]]

Put(st, k, v) == [x \in (DOMAIN st) \cup {k} |-> IF x = k THEN v ELSE st[x]]

\* one iteration of the scan of evict: s is <<selectedKey, lastAccess, frequency, sz, hit>>
EvictVisit(alg, s, k, v) ==
  LET r == BytesToResponse(v)
      take ==
        CASE alg = "LRU" -> r.LastAccess < s.lastAccess
          [] alg = "MRU" -> r.LastAccess >= s.lastAccess
          [] alg = "LFU" -> r.Frequency < s.frequency
          [] alg = "MFU" -> r.Frequency >= s.frequency
          [] OTHER -> FALSE
  IN  IF ~take THEN s
      ELSE CASE alg \in {"LRU", "MRU"} ->
                  [s EXCEPT !.selectedKey = k, !.lastAccess = r.LastAccess,
                            !.sz = BytesLen(v), !.hit = TRUE]
             [] OTHER ->
                  [s EXCEPT !.selectedKey = k, !.frequency = r.Frequency,
                            !.sz = BytesLen(v), !.hit = TRUE]

RECURSIVE EvictScan(_, _, _, _)
EvictScan(alg, st, order, s) ==
  IF order = <<>> THEN s
  ELSE EvictScan(alg, st, Tail(order), EvictVisit(alg, s, Head(order), st[Head(order)]))

\* the victim evict selects when the map is visited in `order` at time `clock`
EvictSelect(alg, st, order, clock) ==
  EvictScan(alg, st, order,
            [selectedKey |-> KeyZero,
             lastAccess |-> IF alg = "MRU" THEN ZeroTime ELSE clock,
             frequency |-> IF alg = "MFU" THEN 0 ELSE MaxFrequency,
             sz |-> 0, hit |-> FALSE])

\* Adapter.evict: [store, cur] after it, the map visited in `order`
evict(alg, st, c, order, clock) ==
  LET s == EvictSelect(alg, st, order, clock)
  IN  [store |-> Remove(st, s.selectedKey),
       cur |-> IF s.hit THEN StorageDel(c, s.sz) ELSE c,
       hung |-> FALSE]

\* every result evict may have, over the orders of the map iteration
EvictOutcomes(alg, a, clock) ==
  {evict(alg, a.store, a.cur, o, clock) : o \in RangeOrders(a.store)}

RECURSIVE StorageLoop(_, _, _, _)
\* for a.storage.shouldEvict(len(response)) { a.evict() }: the states in which
\* the loop may end; hung marks a loop whose evict removes nothing, which
\* spins with the write lock held (for ever, unless the policy is LRU and the
\* clock comes to pass the LastAccess of a stored entry)
StorageLoop(conf, a, n, clock) ==
  IF ~shouldEvict(conf.storageMax, a.cur, n) THEN {a}
  ELSE UNION {IF e.store = a.store /\ e.cur = a.cur
              THEN {[a EXCEPT !.hung = TRUE]}
              ELSE StorageLoop(conf, e, n, clock)
              : e \in EvictOutcomes(conf.algorithm, a, clock)}

\* a Set that makes room before it looks the key up
SetOutcomesRoomFirst(conf, st, c, key, response, clock) ==
  LET a0 == [store |-> st, cur |-> c, hung |-> FALSE]
      afterCap == IF Cardinality(DOMAIN st) = conf.capacity
                  THEN EvictOutcomes(conf.algorithm, a0, clock)
                  ELSE {a0}
  IN  {[store |-> Put(a.store, key, response),
        cur |-> IF key \in DOMAIN a.store THEN a.cur
                ELSE StorageAdd(a.cur, BytesLen(response)),
        hung |-> FALSE]
       : a \in afterCap}

\* Adapter.Set under the write lock: the possible [store, cur, hung] after it
SetOutcomes(conf, st, c, key, response, clock) ==
  IF key \in DOMAIN st
  THEN {[store |-> Put(st, key, response), cur |-> c, hung |-> FALSE]}
  ELSE LET a0 == [store |-> st, cur |-> c, hung |-> FALSE]
           afterCap == IF Cardinality(DOMAIN st) = conf.capacity
                       THEN EvictOutcomes(conf.algorithm, a0, clock)
                       ELSE {a0}
           afterLoop == UNION {StorageLoop(conf, a, BytesLen(response), clock)
                               : a \in afterCap}
       IN  {IF a.hung THEN a
            ELSE [store |-> Put(a.store, key, response),
                  cur |-> StorageAdd(a.cur, BytesLen(response)),
                  hung |-> FALSE]
            : a \in afterLoop}

----------------------------------------------------------------------------
(***************************************************************************)
(* The requests the model serves and the settings it is built with.        *)
(***************************************************************************)

\* "/p"
Path == <<47, 112>>
\* "rk", the refresh key of the tests
RefreshKey == <<114, 107>>
\* "b=1&a=2&a=1", "a=1&b=1&a=2", "b=1&rk=1&a=2&a=1"
QOrderA == <<98, 61, 49, 38, 97, 61, 50, 38, 97, 61, 49>>
QOrderB == <<97, 61, 49, 38, 98, 61, 49, 38, 97, 61, 50>>
QRefreshA == <<98, 61, 49, 38, 114, 107, 61, 49, 38, 97, 61, 50, 38, 97, 61, 49>>
\* "=1&a=1": the first parameter has the empty name
QEmptyName == <<61, 49, 38, 97, 61, 49>>

NoBody == [kind |-> "none", b |-> <<>>]
ErrBody == [kind |-> "err", b |-> <<>>]
BodyOf(b) == [kind |-> "bytes", b |-> b]

Request(m, q, b) == [method |-> m, url |-> [path |-> Path, rawQuery |-> q], body |-> b]

\* GET requests for one resource, with and without the refresh parameter
GetRequests == {Request("GET", q, NoBody) : q \in {QOrderA, QOrderB, QRefreshA}}

\* POST requests for the same resource, and a method that is never cached
PostRequests ==
  {Request("POST", QOrderA, b)
     : b \in {NoBody, ErrBody, BodyOf(<<>>), BodyOf(<<120>>), BodyOf(<<121>>)}}
  \cup {Request("POST", QRefreshA, BodyOf(<<120>>)), Request("PUT", QOrderA, NoBody)}

Requests == GetRequests \cup PostRequests

\* the workloads: the workers that serve requests, the shapes they serve and
\* the number of requests that arrive
Concurrent ==
  [workers |-> {1, 2},
   shapes |-> {Request("GET", QOrderA, NoBody), Request("GET", QRefreshA, NoBody)},
   arrivals |-> MaxArrivals + 1]

Sequential == [workers |-> {1}, shapes |-> Requests, arrivals |-> MaxArrivals]

Algorithms == {"LRU", "MRU", "LFU", "MFU"}

\* the settings of NewClient and NewAdapter
Config(alg, skipHeader) ==
  [methods |-> {"GET", "POST"}, refreshKey |-> RefreshKey,
   skipCacheResponseHeader |-> skipHeader, writeExpiresHeader |-> TRUE,
   ttl |-> TTL, capacity |-> 2, storageMax |-> 0, algorithm |-> alg]

\* the adapter built with AdapterWithStorageCapacity instead of
\* AdapterWithCapacity
Budgeted(conf) == [conf EXCEPT !.capacity = 0, !.storageMax = StorageBudget]

\* the client built without ClientWithRefreshKey: refreshKey is ""
NoRefreshKey(conf) == [conf EXCEPT !.refreshKey = <<>>]

Configs ==
  {Config(alg, skipHeader) : alg \in Algorithms, skipHeader \in {"", "X-Skip"}}
  \cup {Budgeted(Config("LRU", "")), NoRefreshKey(Config("LRU", ""))}

\* the runs of the middleware: settings and workload
Scenarios ==
  {<<Config("LRU", ""), Concurrent>>, <<Config("LRU", "X-Skip"), Sequential>>,
   <<Config("MFU", "X-Skip"), Sequential>>}

\* a population: the request that missed, the invocation of the downstream
\* handler (id) and the body and headers it produced, the expiration, whether the entry
\* was stored, and whether it is still as stored (no request has written an
\* entry it had read earlier over it)
NoPop == [id |-> 0, body |-> <<>>, header |-> {}, exp |-> 0, req |-> <<>>,
          stored |-> FALSE, intact |-> FALSE]

NoOut == [outcome |-> "none", status |-> 0, header |-> {}, body |-> <<>>]

NoRec == [status |-> 0, header |-> {}, body |-> <<>>]

IdleReq ==
  [pc |-> "idle",
   req |-> <<>>,             \* the request as received
   key |-> KeyZero,          \* key
   refresh |-> FALSE,        \* the refresh parameter was found
   got |-> [ok |-> FALSE, b |-> <<>>],   \* b, ok := c.adapter.Get(key)
   response |-> ZeroResponse,            \* response, as updated on a hit
   checkedAt |-> 0,          \* the time.Now() the expiration was compared with
   relOk |-> FALSE,          \* Release: ok
   relSz |-> 0,              \* Release: sz
   relNext |-> "idle",       \* where the caller of Release goes on
   arg |-> <<>>,             \* Set: the response bytes passed
   rec |-> NoRec,            \* the recorder after next.ServeHTTP(rec, r)
   nextBody |-> <<>>,        \* the bytes next read from the r.Body it was given
   wPre |-> {},              \* w.Header() as the miss path finds it
   out |-> NoOut,            \* what the middleware or next has written to w
   log |-> <<>>,             \* history: adapter and downstream calls, in order
   seen |-> NoPop]           \* history: the intact population Get found

\* an io.Reader: the bytes it holds and how many of them have been read
Reader(b) == [data |-> b, off |-> 0]

\* io.ReadAll(rd): the bytes not read yet, and the reader left at its end
ReadAll(rd) ==
  [body |-> SubSeq(rd.data, rd.off + 1, Len(rd.data)),
   rd |-> [rd EXCEPT !.off = Len(rd.data)]]

\* a method check that lets every method through to the cache
cacheableMethodAny(conf, method) == TRUE

\* c.cacheableMethod
cacheableMethod(conf, method) == method \in conf.methods

\* an entry that goes on with the URL-only key when the body cannot be read
MiddlewareEntryReadErrorIgnored(conf, r) ==
  IF ~cacheableMethod(conf, r.method)
  THEN [pc |-> "passthrough", key |-> KeyZero, refresh |-> FALSE]
  ELSE LET u == sortURLParams(r.url)
           key1 == IF r.method = "POST" /\ r.body.kind = "bytes"
                   THEN generateKeyWithBody(URLString(u), r.body.b)
                   ELSE generateKey(URLString(u))
           params == Query(u.rawQuery)
           stripped == [n \in (DOMAIN params) \ {conf.refreshKey} |-> params[n]]
           u2 == [u EXCEPT !.rawQuery = Encode(stripped)]
       IN  IF conf.refreshKey \in DOMAIN params
           THEN [pc |-> "release", key |-> generateKey(URLString(u2)), refresh |-> TRUE]
           ELSE [pc |-> "get", key |-> key1, refresh |-> FALSE]

\* Middleware, from its entry to its first call of the adapter or of next
MiddlewareEntry(conf, r) ==
  IF ~cacheableMethod(conf, r.method)
  THEN [pc |-> "passthrough", key |-> KeyZero, refresh |-> FALSE]
  ELSE LET u == sortURLParams(r.url)
           bodyRead == r.method = "POST" /\ r.body.kind # "none"
           key1 == IF bodyRead /\ r.body.kind = "bytes"
                   THEN generateKeyWithBody(URLString(u), r.body.b)
                   ELSE generateKey(URLString(u))
           params == Query(u.rawQuery)
           stripped == [n \in (DOMAIN params) \ {conf.refreshKey} |-> params[n]]
           u2 == [u EXCEPT !.rawQuery = Encode(stripped)]
       IN  IF bodyRead /\ r.body.kind = "err"
           THEN [pc |-> "passthrough", key |-> KeyZero, refresh |-> FALSE]
           ELSE IF conf.refreshKey \in DOMAIN params
           THEN [pc |-> "release", key |-> generateKey(URLString(u2)), refresh |-> TRUE]
           ELSE [pc |-> "get", key |-> key1, refresh |-> FALSE]

\* a middleware that hands on the body it has read to the end
BodyForNextAsRead(conf, r) ==
  IF cacheableMethod(conf, r.method) /\ r.method = "POST" /\ r.body.kind = "bytes"
  THEN [body |-> ReadAll(Reader(r.body.b)).rd, reads |-> 1]
  ELSE [body |-> Reader(r.body.b), reads |-> 0]

\* r.Body as next.ServeHTTP is given it, and the number of times the
\* middleware has read the body the client sent
BodyForNext(conf, r) ==
  IF cacheableMethod(conf, r.method) /\ r.method = "POST" /\ r.body.kind = "bytes"
  THEN [body |-> Reader(ReadAll(Reader(r.body.b)).body), reads |-> 1]
  ELSE [body |-> Reader(r.body.b), reads |-> 0]

\* MiddlewareEntry, tabulated over the settings and the request shapes
EntryTable ==
  {<<c, r, MiddlewareEntry(c, r)>>
     : c \in Configs, r \in Requests \cup {Request("GET", QEmptyName, NoBody)}}

EntryOf(c, r) == (CHOOSE e \in EntryTable : e[1] = c /\ e[2] = r)[3]

\* sync.RWMutex{}: nobody holds the lock
Unlocked == [writer |-> 0, readers |-> {}]

\* no Set is spinning in its eviction loop with the write lock held
LockFree == \A t \in load.workers : reqs[t].pc # "hung"

Restrict(f, S) == [x \in (DOMAIN f) \cap S |-> f[x]]

\* the keys a Set removed from the map
Evicted(before, after) == (DOMAIN before) \ (DOMAIN after)

----------------------------------------------------------------------------
(***************************************************************************)
(* Init: the client and the adapter as constructed, the store empty.       *)
(***************************************************************************)
Init ==
  /\ store = <<>>
  /\ cur = 0
  /\ \E s \in Scenarios : cfg = s[1] /\ load = s[2]
  /\ now = 1
  /\ reqs = [t \in load.workers |-> IdleReq]
  /\ arrivals = 0
  /\ downCount = 0
  /\ fresh = <<>>
  /\ mutex = Unlocked

\* the clock advances
Tick ==
  /\ now < MaxTime
  /\ now' = now + 1
  /\ UNCHANGED <<store, cur, cfg, reqs, arrivals, downCount, load, mutex, fresh>>

\* a request enters the middleware: method check and key computation
Arrive(t) ==
  /\ reqs[t].pc \in {"idle", "done"}
  /\ arrivals < load.arrivals
  /\ \E r \in load.shapes :
       LET e == EntryOf(cfg, r)
       IN  reqs' = [reqs EXCEPT ![t] =
                      [IdleReq EXCEPT !.pc = e.pc, !.req = r,
                                      !.key = e.key, !.refresh = e.refresh,
                                      !.relNext = "downstream"]]
  /\ arrivals' = arrivals + 1
  /\ UNCHANGED <<store, cur, cfg, now, downCount, load, mutex, fresh>>

\* Adapter.Release, first half: the lookup under the read lock
ReleaseRead(t) ==
  /\ reqs[t].pc = "release"
  /\ LockFree
  /\ LET k == reqs[t].key
         ok == k \in DOMAIN store
     IN  reqs' = [reqs EXCEPT ![t].relOk = ok,
                              ![t].relSz = IF ok THEN BytesLen(store[k]) ELSE 0,
                              ![t].log = Append(@, "Release"),
                              ![t].pc = IF ok THEN "releaseDel" ELSE reqs[t].relNext]
  /\ fresh' = Restrict(fresh, (DOMAIN fresh) \ {reqs[t].key})
  /\ UNCHANGED <<store, cur, cfg, now, arrivals, downCount, load, mutex>>

\* Adapter.Release, second half: the delete under the write lock
ReleaseDelete(t) ==
  /\ reqs[t].pc = "releaseDel"
  /\ LockFree
  /\ store' = Remove(store, reqs[t].key)
  /\ cur' = StorageDel(cur, reqs[t].relSz)
  /\ fresh' = Restrict(fresh, (DOMAIN fresh) \ {reqs[t].key})
  /\ reqs' = [reqs EXCEPT ![t].pc = reqs[t].relNext]
  /\ UNCHANGED <<cfg, now, arrivals, downCount, load, mutex>>

\* a comparison that takes an entry about to expire for an expired one
IsHitLate(expiration, clock) == expiration > clock + 1

\* a comparison that takes an entry expiring now for a live one
IsHitAtExpiry(expiration, clock) == expiration >= clock

\* response.Expiration.After(time.Now())
IsHit(expiration, clock) == expiration > clock

\* b, ok := c.adapter.Get(key), and the comparison of the expiration with time.Now()
GetCheck(t) ==
  /\ reqs[t].pc = "get"
  /\ LockFree
  /\ LET k == reqs[t].key
         ok == k \in DOMAIN store
         b == IF ok THEN store[k] ELSE <<>>
         response == BytesToResponse(b)
         hit == ok /\ IsHit(response.Expiration, now)
     IN  reqs' = [reqs EXCEPT
           ![t].got = [ok |-> ok, b |-> b],
           ![t].checkedAt = now,
           ![t].log = Append(@, "Get"),
           ![t].seen = IF k \in DOMAIN fresh THEN fresh[k] ELSE NoPop,
           ![t].response = IF hit
                           THEN [response EXCEPT !.LastAccess = now,
                                                 !.Frequency = @ + 1]
                           ELSE response,
           ![t].pc = IF hit THEN "hitset" ELSE IF ok THEN "release" ELSE "downstream"]
  /\ UNCHANGED <<store, cur, cfg, now, arrivals, downCount, load, mutex, fresh>>

\* a hit answered with the status of the line commented out
HitStatusNotModified(response) == 304

\* the status of a hit: the handler calls w.Write without w.WriteHeader, and
\* the ResponseWriter then sends 200
HitStatus(response) == 200

\* a hit that writes the Expires header and none of the stored ones
HitHeaderExpiresOnly(conf, response) ==
  IF conf.writeExpiresHeader THEN {"Expires"} ELSE {}

\* the headers the middleware writes on a hit
HitHeader(conf, response) ==
  response.Header.m \cup (IF conf.writeExpiresHeader THEN {"Expires"} ELSE {})

\* the hit: the entry is set back and the stored response written to w
HitSet(t) ==
  /\ reqs[t].pc = "hitset"
  /\ LockFree
  /\ LET k == reqs[t].key
         response == reqs[t].response
     IN  \E o \in SetOutcomes(cfg, store, cur, k, ResponseBytes(response), now) :
           /\ store' = o.store
           /\ cur' = o.cur
           /\ fresh' = LET f == Restrict(fresh, (DOMAIN fresh) \ Evicted(store, o.store))
                       IN  [x \in DOMAIN f |->
                              IF x = k /\ f[k].id # reqs[t].seen.id
                              THEN [f[k] EXCEPT !.intact = FALSE]
                              ELSE f[x]]
           /\ reqs' = [reqs EXCEPT
                ![t].log = Append(@, "Set"),
                ![t].out = IF o.hung THEN @
                           ELSE [outcome |-> "ServedFromCache",
                                 status |-> HitStatus(response),
                                 header |-> HitHeader(cfg, response),
                                 body |-> response.Value.b],
                ![t].pc = IF o.hung THEN "hung" ELSE "done"]
  /\ UNCHANGED <<cfg, now, arrivals, downCount, load, mutex>>

\* what the downstream handler may answer to its n-th invocation: a body
\* naming the invocation, a status, and possibly the skip-cache header
DownstreamAnswers(conf, n) ==
  {[status |-> 200, header |-> {"Content-Type"}, body |-> <<n>>],
   [status |-> 201, header |-> {"Content-Type"}, body |-> <<n>>],
   [status |-> 404, header |-> {"Content-Type"}, body |-> <<n>>]}
  \cup (IF conf.skipCacheResponseHeader = "" THEN {}
        ELSE {[status |-> 200, header |-> {"Content-Type", conf.skipCacheResponseHeader},
               body |-> <<n>>]})

\* next.ServeHTTP(rec, r) on the miss path
Downstream(t) ==
  /\ reqs[t].pc = "downstream"
  /\ \E a \in DownstreamAnswers(cfg, downCount + 1) :
       reqs' = [reqs EXCEPT ![t].rec = a,
                            ![t].nextBody = ReadAll(BodyForNext(cfg, reqs[t].req).body).body,
                            ![t].log = Append(@, "Down"),
                            ![t].pc = "populate"]
  /\ downCount' = downCount + 1
  /\ UNCHANGED <<store, cur, cfg, now, arrivals, load, mutex, fresh>>

\* the headers w may carry before the middleware writes any
WriterHeaders(conf) ==
  {{}} \cup (IF conf.skipCacheResponseHeader = "" THEN {}
             ELSE {{conf.skipCacheResponseHeader}})

\* skipCachingResponse := headers.Get(c.skipCacheResponseHeader) != "", headers being w.Header()
skipCachingResponse(conf, pre) ==
  conf.skipCacheResponseHeader # "" /\ conf.skipCacheResponseHeader \in pre

\* a miss path that stores whatever the status is
ShouldStoreAnyStatus(conf, pre, statusCode) == ~skipCachingResponse(conf, pre)

\* the miss path stores the response
ShouldStore(conf, pre, statusCode) ==
  ~skipCachingResponse(conf, pre) /\ statusCode < 400

\* the headers the miss path writes to w
MissHeader(conf, pre, rec) ==
  rec.header \cup (IF ~skipCachingResponse(conf, pre) /\ conf.writeExpiresHeader
                   THEN {"Expires"} ELSE {})

\* an entry that expires as it is created
NewEntryNoTTL(conf, rec, clock) ==
  [Value |-> BytesOf(rec.body), Header |-> HeaderOf(rec.header),
   Expiration |-> clock, LastAccess |-> clock, Frequency |-> 1]

\* the entry the miss path builds
NewEntry(conf, rec, clock) ==
  [Value |-> BytesOf(rec.body), Header |-> HeaderOf(rec.header),
   Expiration |-> clock + conf.ttl, LastAccess |-> clock, Frequency |-> 1]

\* the miss path after the downstream handler returned: store and write
Populate(t) ==
  /\ reqs[t].pc = "populate"
  /\ \E pre \in WriterHeaders(cfg) :
       LET k == reqs[t].key
           rec == reqs[t].rec
           entry == NewEntry(cfg, rec, now)
           written == [outcome |-> "ServedFresh", status |-> rec.status,
                       header |-> MissHeader(cfg, pre, rec), body |-> rec.body]
           pop == [id |-> rec.body[1], body |-> rec.body, header |-> rec.header,
                   exp |-> now + cfg.ttl,
                   req |-> reqs[t].req,
                   stored |-> ShouldStore(cfg, pre, rec.status), intact |-> TRUE]
           record(f) == IF rec.status < 400
                        THEN [x \in (DOMAIN f) \cup {k} |-> IF x = k THEN pop ELSE f[x]]
                        ELSE f
       IN  IF ShouldStore(cfg, pre, rec.status)
           THEN /\ LockFree
                /\ \E o \in SetOutcomes(cfg, store, cur, k, ResponseBytes(entry), now) :
                     /\ store' = o.store
                     /\ cur' = o.cur
                     /\ fresh' = IF o.hung THEN fresh
                                 ELSE record(Restrict(fresh, (DOMAIN fresh)
                                                               \ Evicted(store, o.store)))
                     /\ reqs' = [reqs EXCEPT
                          ![t].wPre = pre,
                          ![t].log = Append(@, "Set"),
                          ![t].out = IF o.hung THEN @ ELSE written,
                          ![t].pc = IF o.hung THEN "hung" ELSE "done"]
           ELSE /\ reqs' = [reqs EXCEPT ![t].wPre = pre, ![t].out = written,
                                        ![t].pc = "done"]
                /\ fresh' = record(fresh)
                /\ UNCHANGED <<store, cur>>
  /\ UNCHANGED <<cfg, now, arrivals, downCount, load, mutex>>

\* next.ServeHTTP(w, r): the request bypasses the cache
PassThrough(t) ==
  /\ reqs[t].pc = "passthrough"
  /\ \E a \in DownstreamAnswers(cfg, downCount + 1) :
       reqs' = [reqs EXCEPT
         ![t].log = Append(@, "Down"),
         ![t].nextBody = ReadAll(BodyForNext(cfg, reqs[t].req).body).body,
         ![t].out = [outcome |-> "PassThrough", status |-> a.status,
                     header |-> a.header, body |-> a.body],
         ![t].pc = "done"]
  /\ downCount' = downCount + 1
  /\ UNCHANGED <<store, cur, cfg, now, arrivals, load, mutex, fresh>>

Next ==
  \/ Tick
  \/ \E t \in load.workers : Arrive(t)
  \/ \E t \in load.workers : ReleaseRead(t)
  \/ \E t \in load.workers : ReleaseDelete(t)
  \/ \E t \in load.workers : GetCheck(t)
  \/ \E t \in load.workers : HitSet(t)
  \/ \E t \in load.workers : Downstream(t)
  \/ \E t \in load.workers : Populate(t)
  \/ \E t \in load.workers : PassThrough(t)

Spec == Init /\ [][Next]_vars

----------------------------------------------------------------------------
(***************************************************************************)
(* SpecAdapter: threads call Get, Set and Release on the in-memory adapter *)
(* directly; the payloads carry arbitrary lastAccess and frequency values. *)
(***************************************************************************)

\* the keys the threads use; uint64(0) is among them
AdapterKeys == {KeyZero, <<1, 0, 0, 0>>, <<2, 0, 0, 0>>, <<3, 0, 0, 0>>}

Entry(la, f) ==
  [Value |-> BytesOf(<<7>>), Header |-> NilHeader, Expiration |-> MaxTime + 1,
   LastAccess |-> la, Frequency |-> f]

\* the payloads the threads store: entries last accessed in the past, in the
\* future or before the zero time, rarely or often used, and malformed bytes
Payloads ==
  {ResponseBytes(Entry(1, 1)), ResponseBytes(Entry(MaxTime + 1, MaxFrequency)),
   ResponseBytes(Entry(-1, -1)), Malformed}

Threads == [workers |-> {1, 2}, shapes |-> {}, arrivals |-> MaxOps]

\* NewAdapter with AdapterWithAlgorithm and AdapterWithCapacity or
\* AdapterWithStorageCapacity
AdapterConfig(alg, capacity, storageMax) ==
  [Config(alg, "") EXCEPT !.capacity = capacity, !.storageMax = storageMax]

\* adapters limited by entry count, and adapters limited by byte size
AdapterConfigs ==
  {AdapterConfig(alg, 2, 0) : alg \in Algorithms}
  \cup {AdapterConfig(alg, 0, StorageBudget) : alg \in {"LRU", "MFU"}}

InitAdapter ==
  /\ store = <<>>
  /\ cur = 0
  /\ cfg \in AdapterConfigs
  /\ load = Threads
  /\ now = 1
  /\ reqs = [t \in load.workers |-> IdleReq]
  /\ arrivals = 0
  /\ downCount = 0
  /\ fresh = <<>>
  /\ mutex = Unlocked

\* a thread calls Adapter.Set
CallSet(t) ==
  /\ reqs[t].pc = "idle"
  /\ arrivals < load.arrivals
  /\ LockFree
  /\ \E k \in AdapterKeys, p \in Payloads :
       \E o \in SetOutcomes(cfg, store, cur, k, p, now) :
         /\ store' = o.store
         /\ cur' = o.cur
         /\ reqs' = [reqs EXCEPT ![t] =
                        [IdleReq EXCEPT !.pc = IF o.hung THEN "hung" ELSE "idle"]]
  /\ arrivals' = arrivals + 1
  /\ UNCHANGED <<cfg, now, downCount, load, mutex, fresh>>

\* a thread calls Adapter.Get
CallGet(t) ==
  /\ reqs[t].pc = "idle"
  /\ arrivals < load.arrivals
  /\ LockFree
  /\ \E k \in AdapterKeys :
       reqs' = [reqs EXCEPT ![t] =
         [IdleReq EXCEPT
            !.got = IF k \in DOMAIN store THEN [ok |-> TRUE, b |-> store[k]]
                    ELSE [ok |-> FALSE, b |-> <<>>]]]
  /\ arrivals' = arrivals + 1
  /\ UNCHANGED <<store, cur, cfg, now, downCount, load, mutex, fresh>>

\* a thread calls Adapter.Release
CallRelease(t) ==
  /\ reqs[t].pc = "idle"
  /\ arrivals < load.arrivals
  /\ \E k \in AdapterKeys :
       reqs' = [reqs EXCEPT ![t] =
         [IdleReq EXCEPT !.key = k, !.pc = "release", !.relNext = "idle"]]
  /\ arrivals' = arrivals + 1
  /\ UNCHANGED <<store, cur, cfg, now, downCount, load, mutex, fresh>>

NextAdapter ==
  \/ Tick
  \/ \E t \in load.workers : CallSet(t)
  \/ \E t \in load.workers : CallGet(t)
  \/ \E t \in load.workers : CallRelease(t)
  \/ \E t \in load.workers : ReleaseRead(t)
  \/ \E t \in load.workers : ReleaseDelete(t)

SpecAdapter == InitAdapter /\ [][NextAdapter]_vars

----------------------------------------------------------------------------
(***************************************************************************)
(* SpecLocks: the calls of the in-memory adapter step by step, with the    *)
(* operations on Adapter.mutex as steps of their own.  Spec and            *)
(* SpecAdapter take each locked section as one step.                       *)
(***************************************************************************)

\* the threads, and the keys and payloads they pass
Locking == [workers |-> {1, 2}, shapes |-> {}, arrivals |-> MaxOps]

LockKeys == {KeyZero, <<1, 0, 0, 0>>, <<2, 0, 0, 0>>}

LockPayloads == {ResponseBytes(Entry(1, 1)), Malformed}

InitLocks ==
  /\ store = <<>>
  /\ cur = 0
  /\ cfg \in {AdapterConfig("LRU", 2, 0), AdapterConfig("LRU", 0, StorageBudget)}
  /\ load = Locking
  /\ now = 1
  /\ reqs = [t \in load.workers |-> IdleReq]
  /\ arrivals = 0
  /\ downCount = 0
  /\ fresh = <<>>
  /\ mutex = Unlocked

\* a writer that takes the lock as a reader would
CanLockAsReader(m) == m.writer = 0

\* a.mutex.Lock() returns: no writer and no reader holds the lock
CanLock(m) == m.writer = 0 /\ m.readers = {}

\* a.mutex.RLock() returns: no writer holds the lock
CanRLock(m) == m.writer = 0

\* a thread enters Get, Set or Release
Call(t) ==
  /\ reqs[t].pc = "idle"
  /\ arrivals < load.arrivals
  /\ \E k \in LockKeys :
       \/ reqs' = [reqs EXCEPT ![t] = [IdleReq EXCEPT !.key = k, !.pc = "getRLock"]]
       \/ reqs' = [reqs EXCEPT ![t] = [IdleReq EXCEPT !.key = k, !.pc = "relRLock"]]
       \/ \E p \in LockPayloads :
            reqs' = [reqs EXCEPT ![t] =
                       [IdleReq EXCEPT !.key = k, !.arg = p, !.pc = "setLock"]]
  /\ arrivals' = arrivals + 1
  /\ UNCHANGED <<store, cur, cfg, now, downCount, load, fresh, mutex>>

\* a.mutex.RLock() in Get and in Release
RLock(t) ==
  /\ reqs[t].pc \in {"getRLock", "relRLock"}
  /\ CanRLock(mutex)
  /\ mutex' = [mutex EXCEPT !.readers = @ \cup {t}]
  /\ reqs' = [reqs EXCEPT ![t].pc = IF @ = "getRLock" THEN "getRead" ELSE "relRead"]
  /\ UNCHANGED <<store, cur, cfg, now, arrivals, downCount, load, fresh>>

\* response, ok := a.store[key] in Get
GetRead(t) ==
  /\ reqs[t].pc = "getRead"
  /\ reqs' = [reqs EXCEPT
       ![t].got = IF reqs[t].key \in DOMAIN store
                  THEN [ok |-> TRUE, b |-> store[reqs[t].key]]
                  ELSE [ok |-> FALSE, b |-> <<>>],
       ![t].pc = "getRUnlock"]
  /\ UNCHANGED <<store, cur, cfg, now, arrivals, downCount, load, fresh, mutex>>

\* b, ok := a.store[key]; sz = len(b) in Release
RelRead(t) ==
  /\ reqs[t].pc = "relRead"
  /\ LET ok == reqs[t].key \in DOMAIN store
     IN  reqs' = [reqs EXCEPT
           ![t].relOk = ok,
           ![t].relSz = IF ok THEN BytesLen(store[reqs[t].key]) ELSE 0,
           ![t].pc = "relRUnlock"]
  /\ UNCHANGED <<store, cur, cfg, now, arrivals, downCount, load, fresh, mutex>>

\* a.mutex.RUnlock() in Get and in Release
RUnlock(t) ==
  /\ reqs[t].pc \in {"getRUnlock", "relRUnlock"}
  /\ mutex' = [mutex EXCEPT !.readers = @ \ {t}]
  /\ reqs' = [reqs EXCEPT ![t].pc =
                IF @ = "relRUnlock" /\ reqs[t].relOk THEN "relLock" ELSE "idle"]
  /\ UNCHANGED <<store, cur, cfg, now, arrivals, downCount, load, fresh>>

\* a.mutex.Lock() in Set and in Release
Lock(t) ==
  /\ reqs[t].pc \in {"setLock", "relLock"}
  /\ CanLock(mutex)
  /\ mutex' = [mutex EXCEPT !.writer = t]
  /\ reqs' = [reqs EXCEPT ![t].pc = IF @ = "setLock" THEN "setCheck" ELSE "relDelete"]
  /\ UNCHANGED <<store, cur, cfg, now, arrivals, downCount, load, fresh>>

\* Set: the overwrite of a known key, or the eviction at capacity
SetCheck(t) ==
  /\ reqs[t].pc = "setCheck"
  /\ IF reqs[t].key \in DOMAIN store
     THEN /\ store' = Put(store, reqs[t].key, reqs[t].arg)
          /\ cur' = cur
          /\ reqs' = [reqs EXCEPT ![t].pc = "unlock"]
     ELSE /\ reqs' = [reqs EXCEPT ![t].pc = "setLoop"]
          /\ IF Cardinality(DOMAIN store) = cfg.capacity
             THEN \E e \in EvictOutcomes(cfg.algorithm, [store |-> store, cur |-> cur], now) :
                    store' = e.store /\ cur' = e.cur
             ELSE UNCHANGED <<store, cur>>
  /\ UNCHANGED <<cfg, now, arrivals, downCount, load, fresh, mutex>>

\* Set: one test of the loop for a.storage.shouldEvict(len(response)), and
\* one evict if it holds
SetLoop(t) ==
  /\ reqs[t].pc = "setLoop"
  /\ IF shouldEvict(cfg.storageMax, cur, BytesLen(reqs[t].arg))
     THEN /\ \E e \in EvictOutcomes(cfg.algorithm, [store |-> store, cur |-> cur], now) :
               store' = e.store /\ cur' = e.cur
          /\ reqs' = reqs
     ELSE /\ reqs' = [reqs EXCEPT ![t].pc = "setInsert"]
          /\ UNCHANGED <<store, cur>>
  /\ UNCHANGED <<cfg, now, arrivals, downCount, load, fresh, mutex>>

\* Set: a.store[key] = response; a.storage.add(len(response))
SetInsert(t) ==
  /\ reqs[t].pc = "setInsert"
  /\ store' = Put(store, reqs[t].key, reqs[t].arg)
  /\ cur' = StorageAdd(cur, BytesLen(reqs[t].arg))
  /\ reqs' = [reqs EXCEPT ![t].pc = "unlock"]
  /\ UNCHANGED <<cfg, now, arrivals, downCount, load, fresh, mutex>>

\* Release: delete(a.store, key); a.storage.del(sz)
RelDelete(t) ==
  /\ reqs[t].pc = "relDelete"
  /\ store' = Remove(store, reqs[t].key)
  /\ cur' = StorageDel(cur, reqs[t].relSz)
  /\ reqs' = [reqs EXCEPT ![t].pc = "unlock"]
  /\ UNCHANGED <<cfg, now, arrivals, downCount, load, fresh, mutex>>

\* a.mutex.Unlock() in Set (deferred) and in Release
Unlock(t) ==
  /\ reqs[t].pc = "unlock"
  /\ mutex' = [mutex EXCEPT !.writer = 0]
  /\ reqs' = [reqs EXCEPT ![t].pc = "idle"]
  /\ UNCHANGED <<store, cur, cfg, now, arrivals, downCount, load, fresh>>

NextLocks ==
  \/ \E t \in load.workers : Call(t)
  \/ \E t \in load.workers : RLock(t)
  \/ \E t \in load.workers : GetRead(t)
  \/ \E t \in load.workers : RelRead(t)
  \/ \E t \in load.workers : RUnlock(t)
  \/ \E t \in load.workers : Lock(t)
  \/ \E t \in load.workers : SetCheck(t)
  \/ \E t \in load.workers : SetLoop(t)
  \/ \E t \in load.workers : SetInsert(t)
  \/ \E t \in load.workers : RelDelete(t)
  \/ \E t \in load.workers : Unlock(t)

SpecLocks == InitLocks /\ [][NextLocks]_vars

----------------------------------------------------------------------------
(***************************************************************************)
(* SpecBuild: the constructors.  A caller calls NewAdapter, or NewClient   *)
(* with what NewAdapter may have returned, and the client, if there is     *)
(* one, receives a request.  Each option is a pair of its name and its *)
(* argument; a constructor applies them in the order given and stops at    *)
(* the first that returns an error.                                        *)
(***************************************************************************)

\* a := &Adapter{}
ZeroAdapter == [capacity |-> 0, algorithm |-> "", storageMax |-> 0]

\* the cache.Adapter interface value: nil, or the adapter NewAdapter built
NoAdapter == [nil |-> TRUE, a |-> ZeroAdapter]
AdapterOf(a) == [nil |-> FALSE, a |-> a]

\* a []string: nil, or the list of methods
NilMethods == [nil |-> TRUE, l |-> <<>>]
MethodsOf(l) == [nil |-> FALSE, l |-> l]

\* c := &Client{}
ZeroClient ==
  [adapter |-> NoAdapter, ttl |-> 0, refreshKey |-> <<>>,
   skipCacheResponseHeader |-> "", methods |-> NilMethods,
   writeExpiresHeader |-> FALSE]

\* the *Client NewClient returns: nil, or the client
NoClient == [nil |-> TRUE, c |-> ZeroClient]
ClientOf(c) == [nil |-> FALSE, c |-> c]

\* an option: the name of the function that made it, and its argument
Option(name, arg) == <<name, arg>>

Failed(x) == [err |-> TRUE, v |-> x]
Applied(x) == [err |-> FALSE, v |-> x]

AdapterWithAlgorithm(alg, a) == Applied([a EXCEPT !.algorithm = alg])

AdapterWithCapacity(cap, a) ==
  IF cap <= 1 THEN Failed(a) ELSE Applied([a EXCEPT !.capacity = cap])

AdapterWithStorageCapacity(cap, a) ==
  IF cap <= 0 THEN Failed(a) ELSE Applied([a EXCEPT !.storageMax = cap])

\* storageControl.active
active(max) == max > 0

RECURSIVE AdapterOptionsLoop(_, _)
\* for _, opt := range opts { if err := opt(a); err != nil { return nil, err } }
AdapterOptionsLoop(a, opts) ==
  IF opts = <<>> THEN Applied(a)
  ELSE LET o == Head(opts)
           r == CASE o[1] = "AdapterWithAlgorithm" -> AdapterWithAlgorithm(o[2], a)
                  [] o[1] = "AdapterWithCapacity" -> AdapterWithCapacity(o[2], a)
                  [] o[1] = "AdapterWithStorageCapacity" ->
                       AdapterWithStorageCapacity(o[2], a)
       IN  IF r.err THEN r ELSE AdapterOptionsLoop(r.v, Tail(opts))

\* a check of the settings that accepts an adapter without an algorithm
AdapterSettingsErrorCapacityOnly(a) == a.capacity <= 1 /\ active(a.storageMax) = FALSE

\* the two checks NewAdapter makes once the options are applied
AdapterSettingsError(a) ==
  \/ a.capacity <= 1 /\ active(a.storageMax) = FALSE
  \/ a.algorithm = ""

NewAdapter(opts) ==
  LET r == AdapterOptionsLoop(ZeroAdapter, opts)
  IN  IF r.err \/ AdapterSettingsError(r.v)
      THEN [err |-> TRUE, adapter |-> NoAdapter]
      ELSE [err |-> FALSE, adapter |-> AdapterOf(r.v)]

ClientWithAdapter(a, c) == Applied([c EXCEPT !.adapter = a])

ClientWithTTL(ttl, c) == IF ttl < 1 THEN Failed(c) ELSE Applied([c EXCEPT !.ttl = ttl])

ClientWithRefreshKey(refreshKey, c) == Applied([c EXCEPT !.refreshKey = refreshKey])

ClientWithSkipCacheResponseHeader(headerName, c) ==
  Applied([c EXCEPT !.skipCacheResponseHeader = headerName])

\* an option that takes any list of methods
ClientWithMethodsUnchecked(methods, c) == Applied([c EXCEPT !.methods = methods])

ClientWithMethods(methods, c) ==
  IF \E i \in 1..Len(methods.l) : methods.l[i] # "GET" /\ methods.l[i] # "POST"
  THEN Failed(c)
  ELSE Applied([c EXCEPT !.methods = methods])

ClientWithExpiresHeader(c) == Applied([c EXCEPT !.writeExpiresHeader = TRUE])

RECURSIVE ClientOptionsLoop(_, _)
\* for _, opt := range opts { if err := opt(c); err != nil { return nil, err } }
ClientOptionsLoop(c, opts) ==
  IF opts = <<>> THEN Applied(c)
  ELSE LET o == Head(opts)
           r == CASE o[1] = "ClientWithAdapter" -> ClientWithAdapter(o[2], c)
                  [] o[1] = "ClientWithTTL" -> ClientWithTTL(o[2], c)
                  [] o[1] = "ClientWithRefreshKey" -> ClientWithRefreshKey(o[2], c)
                  [] o[1] = "ClientWithSkipCacheResponseHeader" ->
                       ClientWithSkipCacheResponseHeader(o[2], c)
                  [] o[1] = "ClientWithMethods" -> ClientWithMethods(o[2], c)
                  [] o[1] = "ClientWithExpiresHeader" -> ClientWithExpiresHeader(c)
       IN  IF r.err THEN r ELSE ClientOptionsLoop(r.v, Tail(opts))

\* a default that caches POST as well
DefaultMethodsGetAndPost(c) ==
  IF c.methods.nil THEN [c EXCEPT !.methods = MethodsOf(<<"GET", "POST">>)] ELSE c

\* if c.methods == nil { c.methods = []string{http.MethodGet} }
DefaultMethods(c) ==
  IF c.methods.nil THEN [c EXCEPT !.methods = MethodsOf(<<"GET">>)] ELSE c

NewClient(opts) ==
  LET r == ClientOptionsLoop(ZeroClient, opts)
  IN  IF r.err \/ r.v.adapter.nil \/ r.v.ttl < 1
      THEN [err |-> TRUE, client |-> NoClient]
      ELSE [err |-> FALSE, client |-> ClientOf(DefaultMethods(r.v))]

\* the settings the middleware and the adapter run with, for a client as
\* NewClient returned it
Settings(c) ==
  [methods |-> {c.methods.l[i] : i \in 1..Len(c.methods.l)},
   refreshKey |-> c.refreshKey,
   skipCacheResponseHeader |-> c.skipCacheResponseHeader,
   writeExpiresHeader |-> c.writeExpiresHeader,
   ttl |-> c.ttl, capacity |-> c.adapter.a.capacity,
   storageMax |-> c.adapter.a.storageMax, algorithm |-> c.adapter.a.algorithm]

\* the lists of at most MaxOptions options out of S
OptionLists(S) == UNION {[1..n -> S] : n \in 0..MaxOptions}

\* the options a caller passes to NewAdapter
AdapterOptions ==
  {Option("AdapterWithAlgorithm", alg) : alg \in {"", "LRU", "MFU"}}
  \cup {Option("AdapterWithCapacity", cap) : cap \in {-1, 1, 2}}
  \cup {Option("AdapterWithStorageCapacity", cap) : cap \in {-1, 0, StorageBudget}}

AdapterOptionLists == {l : l \in OptionLists(AdapterOptions)}

\* what NewAdapter may return: nil, or one of the adapters it builds
BuiltAdapters == {NewAdapter(opts).adapter : opts \in AdapterOptionLists}

\* the options a caller passes to NewClient
ClientOptions ==
  {Option("ClientWithAdapter", a) : a \in BuiltAdapters}
  \cup {Option("ClientWithTTL", ttl) : ttl \in {-1, 0, TTL}}
  \cup {Option("ClientWithRefreshKey", RefreshKey),
        Option("ClientWithSkipCacheResponseHeader", "X-Skip"),
        Option("ClientWithExpiresHeader", <<>>)}
  \cup {Option("ClientWithMethods", m)
          : m \in {NilMethods, MethodsOf(<<>>), MethodsOf(<<"GET">>),
                   MethodsOf(<<"POST">>), MethodsOf(<<"GET", "POST">>),
                   MethodsOf(<<"GET", "PUT">>), MethodsOf(<<"PUT">>)}}

ClientOptionLists == {l : l \in OptionLists(ClientOptions)}

\* the caller, and the requests a client it built receives
Building ==
  [workers |-> {1},
   shapes |-> {Request("GET", QOrderA, NoBody), Request("GET", QRefreshA, NoBody),
               Request("POST", QOrderA, BodyOf(<<120>>)),
               Request("PUT", QOrderA, NoBody)},
   arrivals |-> 1]

\* MiddlewareEntry, tabulated over the method sets and refresh keys a client
\* may be built with and the requests it receives
BuildEntryTable ==
  {<<m, k, r, MiddlewareEntry([methods |-> m, refreshKey |-> k], r)>>
     : m \in SUBSET {"GET", "POST", "PUT"}, k \in {<<>>, RefreshKey},
       r \in Building.shapes}

BuildEntryOf(c, r) ==
  (CHOOSE e \in BuildEntryTable
     : e[1] = c.methods /\ e[2] = c.refreshKey /\ e[3] = r)[4]

\* a caller: the options it passed last, what NewAdapter and NewClient
\* returned to it, and the request its client has received
IdleCaller ==
  [pc |-> "idle", opts |-> <<>>, adapter |-> NoAdapter, client |-> NoClient,
   err |-> FALSE, req |-> <<>>, key |-> KeyZero, refresh |-> FALSE]

InitBuild ==
  /\ store = <<>>
  /\ cur = 0
  /\ cfg = Settings(ZeroClient)
  /\ load = Building
  /\ now = 1
  /\ reqs = [t \in load.workers |-> IdleCaller]
  /\ arrivals = 0
  /\ downCount = 0
  /\ fresh = <<>>
  /\ mutex = Unlocked

\* adapter, err := memory.NewAdapter(opts...)
CallNewAdapter(t) ==
  /\ reqs[t].pc = "idle"
  /\ \E opts \in AdapterOptionLists :
       LET r == NewAdapter(opts)
       IN  reqs' = [reqs EXCEPT ![t] =
             [IdleCaller EXCEPT !.pc = "adapter", !.opts = opts,
                                !.adapter = r.adapter, !.err = r.err]]
  /\ UNCHANGED <<store, cur, cfg, now, arrivals, downCount, load, fresh, mutex>>

\* client, err := cache.NewClient(opts...)
CallNewClient(t) ==
  /\ reqs[t].pc = "idle"
  /\ \E opts \in ClientOptionLists :
       LET r == NewClient(opts)
       IN  /\ reqs' = [reqs EXCEPT ![t] =
                 [IdleCaller EXCEPT !.pc = "client", !.opts = opts,
                                    !.client = r.client, !.err = r.err]]
           /\ cfg' = IF r.err THEN cfg ELSE Settings(r.client.c)
  /\ UNCHANGED <<store, cur, now, arrivals, downCount, load, fresh, mutex>>

\* the handler client.Middleware(next) receives a request
Serve(t) ==
  /\ reqs[t].pc = "client"
  /\ ~reqs[t].client.nil
  /\ arrivals < load.arrivals
  /\ \E r \in load.shapes :
       LET e == BuildEntryOf(cfg, r)
       IN  reqs' = [reqs EXCEPT ![t].pc = e.pc, ![t].req = r, ![t].key = e.key,
                                ![t].refresh = e.refresh]
  /\ arrivals' = arrivals + 1
  /\ UNCHANGED <<store, cur, cfg, now, downCount, load, fresh, mutex>>

NextBuild ==
  \/ \E t \in load.workers : CallNewAdapter(t)
  \/ \E t \in load.workers : CallNewClient(t)
  \/ \E t \in load.workers : Serve(t)

SpecBuild == InitBuild /\ [][NextBuild]_vars

----------------------------------------------------------------------------
(***************************************************************************)
(* SpecCodec: the entry codec.  A caller encodes an entry with             *)
(* Response.Bytes and decodes the bytes with BytesToResponse.              *)
(***************************************************************************)

\* the entries encoded: Value and Header nil, empty and not empty, the times
\* zero, before and after it, Frequency zero, negative and positive
CodecEntries ==
  [Value : {NilBytes, BytesOf(<<>>), BytesOf(<<7>>), BytesOf(<<7, 8>>)},
   Header : {NilHeader, HeaderOf({}), HeaderOf({"X-Skip"}), HeaderOf({"A", "X-Skip"})},
   Expiration : {-1} \cup (ZeroTime..MaxTime),
   LastAccess : {-1} \cup (ZeroTime..MaxTime),
   Frequency : {-1, 0, 1, MaxFrequency}]

Coding == [workers |-> {1}, shapes |-> {}, arrivals |-> 1]

InitCodec ==
  /\ store = <<>>
  /\ cur = 0
  /\ cfg = Config("LRU", "")
  /\ load = Coding
  /\ now = 1
  /\ reqs = [t \in load.workers |-> IdleReq]
  /\ arrivals = 0
  /\ downCount = 0
  /\ fresh = <<>>
  /\ mutex = Unlocked

\* b := r.Bytes()
CallBytes(t) ==
  /\ reqs[t].pc = "idle"
  /\ \E r \in CodecEntries :
       reqs' = [reqs EXCEPT ![t] =
         [IdleReq EXCEPT !.pc = "encoded", !.arg = ResponseBytes(r),
                         !.log = << <<"Bytes", r>> >>]]
  /\ UNCHANGED <<store, cur, cfg, now, arrivals, downCount, load, fresh, mutex>>

\* response := BytesToResponse(b)
CallBytesToResponse(t) ==
  /\ reqs[t].pc = "encoded"
  /\ reqs' = [reqs EXCEPT ![t].pc = "decoded",
                          ![t].response = BytesToResponse(reqs[t].arg)]
  /\ UNCHANGED <<store, cur, cfg, now, arrivals, downCount, load, fresh, mutex>>

NextCodec ==
  \/ \E t \in load.workers : CallBytes(t)
  \/ \E t \in load.workers : CallBytesToResponse(t)

SpecCodec == InitCodec /\ [][NextCodec]_vars

----------------------------------------------------------------------------
(***************************************************************************)
(* SpecShared: the middleware on an adapter another user has written to:   *)
(* the store starts with bytes under the key of a request that the         *)
(* middleware did not encode.                                              *)
(***************************************************************************)

\* the bytes found in the store: no gob stream at all, and a stream whose
\* last field cannot be decoded
ForeignPayloads == {Malformed, ResponseBytes(Entry(1, 1)) \o Malformed}

Shared ==
  [workers |-> {1},
   shapes |-> {Request("GET", QOrderA, NoBody), Request("GET", QRefreshA, NoBody),
               Request("PUT", QOrderA, NoBody)},
   arrivals |-> MaxArrivals]

InitShared ==
  /\ cfg = Config("LRU", "")
  /\ load = Shared
  /\ \E p \in ForeignPayloads :
       /\ store = [k \in {EntryOf(cfg, Request("GET", QOrderA, NoBody)).key} |-> p]
       /\ cur = BytesLen(p)
  /\ now = 1
  /\ reqs = [t \in load.workers |-> IdleReq]
  /\ arrivals = 0
  /\ downCount = 0
  /\ fresh = <<>>
  /\ mutex = Unlocked

SpecShared == InitShared /\ [][Next]_vars

----------------------------------------------------------------------------
(***************************************************************************)
(* SpecLegacy: the first memory adapter (adapter/memory.go): a map from    *)
(* string keys to cache.Cache values under one sync.Mutex.  Evict scans    *)
(* the map under the lock and hands the key it selected to a new           *)
(* goroutine, `go m.Release(key)`.  Threads 1 and 2 call the adapter;      *)
(* threads 3 and 4 are the goroutines Evict starts.                        *)
(***************************************************************************)

\* the initial value of lfuFrequency: 9999999999999 in the source, here the
\* largest number the checker has, above every frequency stored
LegacyMaxFrequency == 2147483647

Callers == {1, 2}
Spawned == {3, 4}

Legacy == [workers |-> Callers \cup Spawned, shapes |-> {}, arrivals |-> MaxOps]

\* the keys "a" and "b"; "" is the key a scan starts from
LegacyKeys == {<<97>>, <<98>>}

\* cache.Cache values: last accessed long ago and often used, and last
\* accessed lately and rarely used
LegacyCaches ==
  {[Value |-> <<7>>, Expiration |-> MaxTime + 1, LastAccess |-> 0, Frequency |-> 2],
   [Value |-> <<8>>, Expiration |-> MaxTime + 1, LastAccess |-> 1, Frequency |-> 1]}

InitLegacy ==
  /\ store = <<>>
  /\ cur = 0
  /\ cfg \in {AdapterConfig(alg, 2, 0) : alg \in Algorithms}
  /\ load = Legacy
  /\ now = 2
  /\ reqs = [t \in load.workers |-> IdleReq]
  /\ arrivals = 0
  /\ downCount = 0
  /\ fresh = <<>>
  /\ mutex = Unlocked

\* one iteration of the loop of lru, mru, lfu or mfu
MemoryVisit(alg, s, k, v) ==
  CASE alg = "LRU" -> IF v.LastAccess < s.lastAccess
                      THEN [s EXCEPT !.key = k, !.lastAccess = v.LastAccess] ELSE s
    [] alg = "MRU" -> IF v.LastAccess >= s.lastAccess
                      THEN [s EXCEPT !.key = k, !.lastAccess = v.LastAccess] ELSE s
    [] alg = "LFU" -> IF v.Frequency < s.frequency
                      THEN [s EXCEPT !.key = k, !.frequency = v.Frequency] ELSE s
    [] alg = "MFU" -> IF v.Frequency >= s.frequency
                      THEN [s EXCEPT !.key = k, !.frequency = v.Frequency] ELSE s

RECURSIVE MemoryRange(_, _, _, _)
MemoryRange(alg, st, order, s) ==
  IF order = <<>> THEN s
  ELSE MemoryRange(alg, st, Tail(order), MemoryVisit(alg, s, Head(order), st[Head(order)]))

\* the key lru, mru, lfu or mfu selects when the map is visited in `order`
MemorySelect(alg, st, order, clock) ==
  MemoryRange(alg, st, order,
              [key |-> <<>>,
               lastAccess |-> IF alg = "MRU" THEN ZeroTime ELSE clock,
               frequency |-> IF alg = "MFU" THEN 0 ELSE LegacyMaxFrequency]).key

\* a thread enters Get, Set, Release or Evict
MemoryCall(t) ==
  /\ t \in Callers
  /\ reqs[t].pc = "idle"
  /\ arrivals < load.arrivals
  /\ \/ \E k \in LegacyKeys, op \in {"Get", "Release"} :
          reqs' = [reqs EXCEPT ![t] = [IdleReq EXCEPT !.key = k, !.relNext = op, !.pc = "lock"]]
     \/ \E k \in LegacyKeys, c \in LegacyCaches :
          reqs' = [reqs EXCEPT ![t] =
                     [IdleReq EXCEPT !.key = k, !.arg = c, !.relNext = "Set", !.pc = "lock"]]
     \/ reqs' = [reqs EXCEPT ![t] = [IdleReq EXCEPT !.relNext = "Evict", !.pc = "lock"]]
  /\ arrivals' = arrivals + 1
  /\ UNCHANGED <<store, cur, cfg, now, downCount, load, fresh, mutex>>

\* m.Lock() returns
MemoryLock(t) ==
  /\ reqs[t].pc = "lock"
  /\ mutex.writer = 0
  /\ mutex' = [mutex EXCEPT !.writer = t]
  /\ reqs' = [reqs EXCEPT ![t].pc = reqs[t].relNext]
  /\ UNCHANGED <<store, cur, cfg, now, arrivals, downCount, load, fresh>>

\* Get: cache, ok := m.store[key]
MemoryGet(t) ==
  /\ reqs[t].pc = "Get"
  /\ reqs' = [reqs EXCEPT
       ![t].got = IF reqs[t].key \in DOMAIN store
                  THEN [ok |-> TRUE, b |-> store[reqs[t].key]]
                  ELSE [ok |-> FALSE, b |-> <<>>],
       ![t].pc = "unlock"]
  /\ UNCHANGED <<store, cur, cfg, now, arrivals, downCount, load, fresh, mutex>>

\* Set: m.store[key] = cache
MemorySet(t) ==
  /\ reqs[t].pc = "Set"
  /\ store' = Put(store, reqs[t].key, reqs[t].arg)
  /\ reqs' = [reqs EXCEPT ![t].pc = "unlock"]
  /\ UNCHANGED <<cur, cfg, now, arrivals, downCount, load, fresh, mutex>>

\* Release: delete(m.store, key) if the key is there
MemoryRelease(t) ==
  /\ reqs[t].pc = "Release"
  /\ store' = Remove(store, reqs[t].key)
  /\ reqs' = [reqs EXCEPT ![t].pc = "unlock"]
  /\ UNCHANGED <<cur, cfg, now, arrivals, downCount, load, fresh, mutex>>

\* lru, mru, lfu or mfu under the lock: the scan, and `go m.Release(key)`;
\* the new goroutine g starts at the m.Lock() of Release
MemoryScan(t) ==
  /\ reqs[t].pc = "Evict"
  /\ \E o \in RangeOrders(store), g \in Spawned :
       /\ reqs[g].pc = "idle"
       /\ reqs' = [reqs EXCEPT
            ![t].pc = "unlock",
            ![g] = [IdleReq EXCEPT !.key = MemorySelect(cfg.algorithm, store, o, now),
                                   !.relNext = "Release", !.pc = "lock",
                                   !.log = <<"Evict">>]]
  /\ UNCHANGED <<store, cur, cfg, now, arrivals, downCount, load, fresh, mutex>>

\* the deferred m.Unlock(); a goroutine that Evict started ends here
MemoryUnlock(t) ==
  /\ reqs[t].pc = "unlock"
  /\ mutex' = [mutex EXCEPT !.writer = 0]
  /\ reqs' = [reqs EXCEPT ![t] = IF t \in Spawned THEN IdleReq
                                 ELSE [reqs[t] EXCEPT !.pc = "idle"]]
  /\ UNCHANGED <<store, cur, cfg, now, arrivals, downCount, load, fresh>>

NextLegacy ==
  \/ \E t \in load.workers : MemoryCall(t)
  \/ \E t \in load.workers : MemoryLock(t)
  \/ \E t \in load.workers : MemoryGet(t)
  \/ \E t \in load.workers : MemorySet(t)
  \/ \E t \in load.workers : MemoryRelease(t)
  \/ \E t \in load.workers : MemoryScan(t)
  \/ \E t \in load.workers : MemoryUnlock(t)

SpecLegacy == InitLegacy /\ [][NextLegacy]_vars

----------------------------------------------------------------------------
(***************************************************************************)
(* SpecSingle: the memory adapter with one sync.Mutex (part_001).  Get and *)
(* Set lock the mutex; Release does not, because Set calls it with the     *)
(* mutex held; Release is also a method of the Adapter interface, which    *)
(* the middleware calls.  An access to the map by a thread that does not   *)
(* hold the mutex while another thread holds it is a data race: the Go     *)
(* runtime may stop the process ("fatal error: concurrent map writes") or  *)
(* let the access go through.                                              *)
(***************************************************************************)

Single == [workers |-> {1, 2}, shapes |-> {}, arrivals |-> MaxOps]

InitSingle ==
  /\ store = <<>>
  /\ cur = 0
  /\ cfg \in {AdapterConfig("LRU", 2, 0), AdapterConfig("MFU", 2, 0)}
  /\ load = Single
  /\ now = 1
  /\ reqs = [t \in load.workers |-> IdleReq]
  /\ arrivals = 0
  /\ downCount = 0
  /\ fresh = <<>>
  /\ mutex = Unlocked

\* a thread enters Get or Set, which start with a.Lock(), or Release, which
\* starts with the lookup in the map
SingleCall(t) ==
  /\ reqs[t].pc = "idle"
  /\ arrivals < load.arrivals
  /\ \E k \in LockKeys :
       \/ reqs' = [reqs EXCEPT ![t] =
                     [IdleReq EXCEPT !.key = k, !.relNext = "Get", !.pc = "lock"]]
       \/ reqs' = [reqs EXCEPT ![t] =
                     [IdleReq EXCEPT !.key = k, !.relNext = "idle", !.pc = "relRead"]]
       \/ \E p \in LockPayloads :
            reqs' = [reqs EXCEPT ![t] =
                       [IdleReq EXCEPT !.key = k, !.arg = p, !.relNext = "SetEvict",
                                       !.pc = "lock"]]
  /\ arrivals' = arrivals + 1
  /\ UNCHANGED <<store, cur, cfg, now, downCount, load, fresh, mutex>>

\* a.Lock() returns
SingleLock(t) ==
  /\ reqs[t].pc = "lock"
  /\ mutex.writer = 0
  /\ mutex' = [mutex EXCEPT !.writer = t]
  /\ reqs' = [reqs EXCEPT ![t].pc = reqs[t].relNext]
  /\ UNCHANGED <<store, cur, cfg, now, arrivals, downCount, load, fresh>>

\* Get: cache, ok := a.store[key]
SingleGet(t) ==
  /\ reqs[t].pc = "Get"
  /\ reqs' = [reqs EXCEPT
       ![t].got = IF reqs[t].key \in DOMAIN store
                  THEN [ok |-> TRUE, b |-> store[reqs[t].key]]
                  ELSE [ok |-> FALSE, b |-> <<>>],
       ![t].pc = "unlock"]
  /\ UNCHANGED <<store, cur, cfg, now, arrivals, downCount, load, fresh, mutex>>

\* Set at capacity: go a.evict(k); a.Release(<-k), the scan of evict and the
\* Release of the key it sends, with the mutex held by Set
SingleSetEvict(t) ==
  /\ reqs[t].pc = "SetEvict"
  /\ IF Cardinality(DOMAIN store) = cfg.capacity
     THEN \E o \in RangeOrders(store) :
            store' = Remove(store, EvictSelect(cfg.algorithm, store, o, now).selectedKey)
     ELSE store' = store
  /\ reqs' = [reqs EXCEPT ![t].pc = "SetInsert"]
  /\ UNCHANGED <<cur, cfg, now, arrivals, downCount, load, fresh, mutex>>

\* Set: a.store[key] = cache
SingleSetInsert(t) ==
  /\ reqs[t].pc = "SetInsert"
  /\ store' = Put(store, reqs[t].key, reqs[t].arg)
  /\ reqs' = [reqs EXCEPT ![t].pc = "unlock"]
  /\ UNCHANGED <<cur, cfg, now, arrivals, downCount, load, fresh, mutex>>

\* the process after the runtime has detected the race
Fatal == [t \in load.workers |-> [IdleReq EXCEPT !.pc = "fatal"]]

\* the access of thread t to the map races with the thread in the mutex
Races(t) == mutex.writer \notin {0, t}

\* Release called through the interface: `_, ok := a.store[key]`
SingleReleaseRead(t) ==
  /\ reqs[t].pc = "relRead"
  /\ \/ reqs' = [reqs EXCEPT ![t].relOk = reqs[t].key \in DOMAIN store,
                              ![t].pc = IF reqs[t].key \in DOMAIN store
                                        THEN "relDelete" ELSE "idle"]
     \/ Races(t) /\ reqs' = Fatal
  /\ UNCHANGED <<store, cur, cfg, now, arrivals, downCount, load, fresh, mutex>>

\* Release called through the interface: delete(a.store, key)
SingleReleaseDelete(t) ==
  /\ reqs[t].pc = "relDelete"
  /\ \/ store' = Remove(store, reqs[t].key) /\ reqs' = [reqs EXCEPT ![t].pc = "idle"]
     \/ Races(t) /\ reqs' = Fatal /\ store' = store
  /\ UNCHANGED <<cur, cfg, now, arrivals, downCount, load, fresh, mutex>>

\* the deferred a.Unlock()
SingleUnlock(t) ==
  /\ reqs[t].pc = "unlock"
  /\ mutex' = [mutex EXCEPT !.writer = 0]
  /\ reqs' = [reqs EXCEPT ![t].pc = "idle"]
  /\ UNCHANGED <<store, cur, cfg, now, arrivals, downCount, load, fresh>>

NextSingle ==
  \/ \E t \in load.workers : SingleCall(t)
  \/ \E t \in load.workers : SingleLock(t)
  \/ \E t \in load.workers : SingleGet(t)
  \/ \E t \in load.workers : SingleSetEvict(t)
  \/ \E t \in load.workers : SingleSetInsert(t)
  \/ \E t \in load.workers : SingleReleaseRead(t)
  \/ \E t \in load.workers : SingleReleaseDelete(t)
  \/ \E t \in load.workers : SingleUnlock(t)

SpecSingle == InitSingle /\ [][NextSingle]_vars

----------------------------------------------------------------------------
(***************************************************************************)
(* SpecNoRefresh: the middleware of a client built without                 *)
(* ClientWithRefreshKey.                                                   *)
(***************************************************************************)

Unkeyed ==
  [workers |-> {1},
   shapes |-> {Request("GET", QOrderA, NoBody), Request("GET", QRefreshA, NoBody),
               Request("GET", QEmptyName, NoBody), Request("PUT", QOrderA, NoBody)},
   arrivals |-> MaxArrivals]

InitNoRefresh ==
  /\ store = <<>>
  /\ cur = 0
  /\ cfg = NoRefreshKey(Config("LRU", ""))
  /\ load = Unkeyed
  /\ now = 1
  /\ reqs = [t \in load.workers |-> IdleReq]
  /\ arrivals = 0
  /\ downCount = 0
  /\ fresh = <<>>
  /\ mutex = Unlocked

SpecNoRefresh == InitNoRefresh /\ [][Next]_vars

----------------------------------------------------------------------------
(***************************************************************************)
(* SpecLive: the middleware with every handler that can take a step        *)
(* eventually taking it, on an adapter limited by entry count and on one   *)
(* limited by byte size.                                                   *)
(***************************************************************************)

LiveWorkers == {1, 2}

Live ==
  [workers |-> LiveWorkers,
   shapes |-> {Request("GET", QOrderA, NoBody), Request("GET", QRefreshA, NoBody),
               Request("PUT", QOrderA, NoBody)},
   arrivals |-> MaxArrivals]

InitLive ==
  /\ store = <<>>
  /\ cur = 0
  /\ cfg \in {Config("LRU", ""), Budgeted(Config("LRU", ""))}
  /\ load = Live
  /\ now = 1
  /\ reqs = [t \in load.workers |-> IdleReq]
  /\ arrivals = 0
  /\ downCount = 0
  /\ fresh = <<>>
  /\ mutex = Unlocked

\* the next step of the handler that serves the request of worker t
Step(t) ==
  \/ ReleaseRead(t)
  \/ ReleaseDelete(t)
  \/ GetCheck(t)
  \/ HitSet(t)
  \/ Downstream(t)
  \/ Populate(t)
  \/ PassThrough(t)

\* the goroutine of a request is scheduled as long as it can run
Fairness == \A t \in LiveWorkers : WF_vars(Step(t))

SpecLive == InitLive /\ [][Next]_vars /\ Fairness

----------------------------------------------------------------------------
(***************************************************************************)
(* Properties of the adapter and of the middleware.                        *)
(***************************************************************************)

Called(r, what) == \E i \in 1..Len(r.log) : r.log[i] = what

C2_HitServesStoredValue ==
  \A t \in load.workers :
    LET r == reqs[t]
        stored == BytesToResponse(r.got.b)
    IN  (r.got.ok /\ stored.Expiration > r.checkedAt)
          => /\ r.pc \in {"hitset", "done"}
             /\ ~Called(r, "Down")
             /\ r.pc = "done" => /\ r.out.outcome = "ServedFromCache"
                                 /\ r.out.body = stored.Value.b

C2_Witness ==
  \E t \in load.workers :
    /\ reqs[t].pc = "done"
    /\ reqs[t].got.ok
    /\ BytesToResponse(reqs[t].got.b).Expiration > reqs[t].checkedAt
    /\ reqs[t].out.outcome = "ServedFromCache"
    /\ reqs[t].out.body # <<>>
    /\ downCount = 1

\* the request finds the population of an identical request that missed, and
\* no Release or eviction of the key lies in between
FindsPopulation(r) ==
  /\ r.pc = "done"
  /\ Called(r, "Get")
  /\ r.seen.id # 0
  /\ r.seen.req = r.req
  /\ r.checkedAt < r.seen.exp

ServedWithoutDownstream(r) ==
  /\ r.out.outcome = "ServedFromCache"
  /\ r.out.body = r.seen.body
  /\ ~Called(r, "Down")

\* C3, as stated: after a cacheable request misses and the downstream handler
\* answers with a status below 400, an identical request that arrives before
\* the TTL elapses, with no Release or eviction of that key in between, is
\* served the body the downstream produced, without a second invocation.
C3_PopulateThenHit ==
  \A t \in load.workers :
    FindsPopulation(reqs[t]) => ServedWithoutDownstream(reqs[t])

\* the same holds of the populations that were stored (the response writer of
\* the request that missed carried no skip-cache header) and that no request
\* has overwritten with an entry it had read earlier
PopulateThenHitWhenIntact ==
  \A t \in load.workers :
    (FindsPopulation(reqs[t]) /\ reqs[t].seen.stored /\ reqs[t].seen.intact)
      => ServedWithoutDownstream(reqs[t])

\* C4: an entry whose Expiration is at or before the current time is never
\* served as a hit; the middleware calls Release for its key before it invokes
\* the downstream handler and before it sets a new entry under that key.  An
\* entry whose Expiration is after the current time is served as a hit.
C4_ExpiredIsReleasedFirst ==
  \A t \in load.workers :
    LET r == reqs[t]
        stored == BytesToResponse(r.got.b)
    IN  /\ (r.got.ok /\ stored.Expiration <= r.checkedAt)
             => /\ r.out.outcome # "ServedFromCache"
                /\ r.pc \in {"release", "releaseDel", "downstream", "populate", "done"}
                /\ r.pc \in {"downstream", "populate", "done"}
                     => /\ Len(r.log) >= 2
                        /\ r.log[2] = "Release"
                        /\ \A i \in 1..2 : r.log[i] \notin {"Down", "Set"}
        /\ (r.got.ok /\ stored.Expiration > r.checkedAt /\ r.pc = "done")
             => r.out.outcome = "ServedFromCache"

C4_Witness ==
  \E t \in load.workers :
    /\ reqs[t].pc = "done"
    /\ reqs[t].got.ok
    /\ BytesToResponse(reqs[t].got.b).Expiration = reqs[t].checkedAt
    /\ reqs[t].log = <<"Get", "Release", "Down", "Set">>
    /\ reqs[t].out.outcome = "ServedFresh"

\* pairs of a request with the refresh parameter and the same request
\* without it
RefreshPairs ==
  {q : q \in {p \in Requests \X Requests :
     LET with == Query(p[1].url.rawQuery)
         without == Query(p[2].url.rawQuery)
     IN  /\ RefreshKey \in DOMAIN with
         /\ p[1].method = p[2].method
         /\ p[1].body = p[2].body
         /\ p[1].url.path = p[2].url.path
         /\ without = [n \in (DOMAIN with) \ {RefreshKey} |-> with[n]]}}

\* C5: for every cacheable method, a request that carries the refresh
\* parameter performs no Get, calls Release on the key of the same request
\* without the parameter, invokes the downstream handler, and stores the
\* response under that same key.
C5_RefreshUsesPlainKey ==
  \A t \in load.workers :
    LET r == reqs[t]
    IN  (r.pc # "idle" /\ r.refresh)
          => /\ \A p \in RefreshPairs :
                  p[1] = r.req => r.key = EntryOf(cfg, p[2]).key
             /\ ~Called(r, "Get")
             /\ Len(r.log) >= 1 => r.log[1] = "Release"
             /\ r.pc = "done" => Called(r, "Down")

\* C6: a request whose method is not cacheable invokes the downstream handler
\* once, performs no Get, Set or Release, and leaves the store as it was.
C6_PassThroughLeavesStore ==
  /\ [](\A t \in load.workers :
          LET r == reqs[t]
          IN  (r.pc # "idle" /\ r.req.method \notin cfg.methods)
                => /\ r.pc \in {"passthrough", "done"}
                   /\ ~Called(r, "Get") /\ ~Called(r, "Set") /\ ~Called(r, "Release")
                   /\ r.pc = "done" => /\ r.log = <<"Down">>
                                       /\ r.out.outcome = "PassThrough")
  /\ [][\A t \in load.workers :
          (reqs[t].pc # "idle" /\ reqs[t].req.method \notin cfg.methods
             /\ reqs'[t] # reqs[t])
            => (store' = store /\ cur' = cur)]_vars

C6_Witness ==
  \E t \in load.workers :
    /\ reqs[t].pc = "done"
    /\ reqs[t].req.method = "PUT"
    /\ reqs[t].log = <<"Down">>
    /\ reqs[t].out.outcome = "PassThrough"
    /\ store # <<>>

\* how often the pair x occurs in the sequence of pairs ps
Occurrences(ps, x) == Cardinality({i \in 1..Len(ps) : ps[i] = x})

\* pairs of distinct requests that differ only in the order of their query
\* parameters
OrderPairs ==
  {q : q \in {p \in Requests \X Requests :
     LET ps1 == QueryPairs(p[1].url.rawQuery)
         ps2 == QueryPairs(p[2].url.rawQuery)
     IN  /\ p[1] # p[2]
         /\ p[1].method = p[2].method
         /\ p[1].body = p[2].body
         /\ p[1].url.path = p[2].url.path
         /\ Len(ps1) = Len(ps2)
         /\ \A i \in 1..Len(ps1) : Occurrences(ps1, ps1[i]) = Occurrences(ps2, ps1[i])}}

\* C7: two requests whose URLs differ only in the order of the query
\* parameters, repeated values included, map to the same key, and the
\* response stored for one is served as a hit for the other.
C7_ParameterOrderIrrelevant ==
  \A t \in load.workers :
    LET r == reqs[t]
    IN  r.pc # "idle"
          => /\ \A p \in OrderPairs : p[1] = r.req => r.key = EntryOf(cfg, p[2]).key
             /\ (/\ r.pc = "done"
                 /\ Called(r, "Get")
                 /\ r.seen.id # 0
                 /\ <<r.req, r.seen.req>> \in OrderPairs
                 /\ r.seen.stored /\ r.seen.intact
                 /\ r.checkedAt < r.seen.exp)
                  => ServedWithoutDownstream(r)

C7_Witness ==
  \E t \in load.workers :
    /\ reqs[t].pc = "done"
    /\ reqs[t].req = Request("GET", QOrderB, NoBody)
    /\ reqs[t].seen.req = Request("GET", QOrderA, NoBody)
    /\ ServedWithoutDownstream(reqs[t])

\* pairs of POST requests to the same URL whose bodies differ
BodyPairs ==
  {q : q \in {p \in Requests \X Requests :
     /\ p[1].method = "POST" /\ p[2].method = "POST"
     /\ p[1].url = p[2].url
     /\ p[1].body.kind # "err" /\ p[2].body.kind # "err"
     /\ p[1].body.b # p[2].body.b}}

C9_ErrorsNotStored ==
  /\ [](\A t \in load.workers :
          LET r == reqs[t]
          IN  (r.pc = "done" /\ r.out.outcome = "ServedFresh")
                => /\ r.out.status = r.rec.status
                   /\ r.out.body = r.rec.body
                   /\ r.rec.header \subseteq r.out.header
                   /\ r.rec.status >= 400 => ~Called(r, "Set"))
  /\ [][\A t \in load.workers :
          (reqs[t].pc = "populate" /\ reqs[t].rec.status >= 400
             /\ reqs'[t].pc = "done")
            => (store' = store /\ cur' = cur)]_vars

C9_Witness ==
  \E t \in load.workers :
    /\ reqs[t].pc = "done"
    /\ reqs[t].out.outcome = "ServedFresh"
    /\ reqs[t].rec.status = 404
    /\ reqs[t].out.status = 404
    /\ reqs[t].out.body = <<1>>
    /\ reqs[t].key \notin DOMAIN store

\* C10: with a skip-cache response header configured, a downstream response
\* that carries a non-empty value for that header is written to the response
\* and no Set is issued for it.
C10_SkipHeaderSuppressesSet ==
  \A t \in load.workers :
    LET r == reqs[t]
    IN  (/\ r.pc = "done"
         /\ r.out.outcome = "ServedFresh"
         /\ cfg.skipCacheResponseHeader # ""
         /\ cfg.skipCacheResponseHeader \in r.rec.header)
          => /\ ~Called(r, "Set")
             /\ r.out.body = r.rec.body

\* the entry under k is the one the policy dictates among the entries of st
Dictated(alg, st, k) ==
  LET la(x) == BytesToResponse(st[x]).LastAccess
      fr(x) == BytesToResponse(st[x]).Frequency
  IN  \A x \in DOMAIN st :
        CASE alg = "LRU" -> la(k) <= la(x)
          [] alg = "MRU" -> la(k) >= la(x)
          [] alg = "LFU" -> fr(k) <= fr(x)
          [] alg = "MFU" -> fr(k) >= fr(x)

\* C11: whenever evict removes an entry from the store, the removed entry
\* has the smallest lastAccess of all stored entries under LRU, the largest
\* under MRU, the smallest frequency under LFU and the largest under MFU.
C11_VictimIsDictated ==
  \A e \in EvictOutcomes(cfg.algorithm, [store |-> store, cur |-> cur], now) :
    \A k \in Evicted(store, e.store) : Dictated(cfg.algorithm, store, k)

\* the same holds whenever the scan of evict selects an entry
VictimIsDictatedWhenSelected ==
  \A o \in RangeOrders(store) :
    LET s == EvictSelect(cfg.algorithm, store, o, now)
    IN  s.hit => /\ s.selectedKey \in DOMAIN store
                 /\ Dictated(cfg.algorithm, store, s.selectedKey)

\* evict selects one of two entries that differ in what the policy looks at
VictimSelected ==
  /\ Cardinality(DOMAIN store) = 2
  /\ \E o \in RangeOrders(store) :
       LET s == EvictSelect(cfg.algorithm, store, o, now)
       IN  /\ s.hit
           /\ \E x \in DOMAIN store : ~Dictated(cfg.algorithm, store, x)

\* C12: Set of a new key on a store that holds at least `capacity` entries
\* evicts before it inserts, and the entry it evicts is the one the policy
\* dictates; so with capacity 2 and three entries stored, Set of a fourth
\* key removes exactly that entry.
C12_SetEvictsAtCapacity ==
  (cfg.capacity > 1 /\ Cardinality(DOMAIN store) >= cfg.capacity)
    => \A k \in AdapterKeys \ DOMAIN store, p \in Payloads :
         \A o \in SetOutcomes(cfg, store, cur, k, p, now) :
           /\ ~o.hung
           /\ k \in DOMAIN o.store
           /\ \E v \in DOMAIN store :
                /\ Evicted(store, o.store) = {v}
                /\ Dictated(cfg.algorithm, store, v)

\* one request has populated the entry and each of the two workers has then
\* completed a hit on it; no other request has arrived
TwoHitsCompleted ==
  /\ Cardinality(load.workers) = 2
  /\ arrivals = 3
  /\ downCount = 1
  /\ \A t \in load.workers :
       /\ reqs[t].pc = "done"
       /\ reqs[t].out.outcome = "ServedFromCache"
       /\ reqs[t].key \in DOMAIN store

\* C13: when N requests hit the same valid entry, concurrently or not, and
\* nothing else touches the key, the stored frequency is, once all have
\* completed, the initial frequency plus N (here N = 2, the entry stored with
\* frequency 1).
C13_HitsAreCounted ==
  TwoHitsCompleted
    => \A t \in load.workers : BytesToResponse(store[reqs[t].key]).Frequency = 1 + 2

\* the thread is between Lock and Unlock, where Set and Release change the
\* map and the byte counter
Mutating(t) == reqs[t].pc \in {"setCheck", "setLoop", "setInsert", "relDelete"}

\* the thread is between RLock and RUnlock, where Get and Release read the map
Reading(t) == reqs[t].pc \in {"getRead", "relRead"}

\* C14: every change of the map and of the byte counter (Set insert or
\* overwrite, Release delete, evict) is made by the thread that holds the write
\* lock; no two threads are in a mutation at once, and no thread reads the map
\* while a mutation is in progress.
C14_MutationsUnderWriteLock ==
  /\ [](\A t \in load.workers :
          Mutating(t) => /\ mutex.writer = t
                         /\ \A u \in load.workers \ {t} : ~Mutating(u) /\ ~Reading(u))
  /\ [][(store' # store \/ cur' # cur)
          => (mutex.writer # 0 /\ Mutating(mutex.writer) /\ mutex' = mutex)]_vars

\* a Set is about to insert while the other thread waits for the lock
C14_Witness ==
  \E t, u \in load.workers :
    /\ reqs[t].pc = "setInsert"
    /\ mutex.writer = t
    /\ reqs[u].pc \in {"getRLock", "relRLock", "setLock", "relLock"}
    /\ store # <<>>

\* C15: Set on an adapter with a byte-size budget terminates for every
\* payload and every store content: no Set stays in its eviction loop with the
\* lock held.
C15_SetTerminates == \A t \in load.workers : reqs[t].pc # "hung"

RECURSIVE StoredBytes(_)
\* the sum of the lengths of the payloads of st
StoredBytes(st) ==
  IF DOMAIN st = {} THEN 0
  ELSE LET k == CHOOSE k \in DOMAIN st : TRUE
       IN  BytesLen(st[k]) + StoredBytes(Remove(st, k))

\* C16: with a byte-size budget configured, after any sequence of Set (new
\* key or overwrite) and Release calls the lengths of the stored payloads sum
\* to at most the budget.
C16_BudgetNeverExceeded ==
  cfg.storageMax > 0 => StoredBytes(store) <= cfg.storageMax

\* the positions in opts of the options made by the function `name`
Passed(opts, name) == {i \in 1..Len(opts) : opts[i][1] = name}

\* the argument of the last option made by `name`; S is Passed(opts, name)
LastArg(opts, S) == opts[CHOOSE i \in S : \A j \in S : j <= i][2]

NoAdapterSet(opts) ==
  LET S == Passed(opts, "ClientWithAdapter")
  IN  S = {} \/ LastArg(opts, S).nil

TTLNotPositive(opts) ==
  LET S == Passed(opts, "ClientWithTTL")
  IN  S = {} \/ \E i \in S : opts[i][2] <= 0

UnsupportedMethodListed(opts) ==
  \E i \in Passed(opts, "ClientWithMethods") :
    \E j \in 1..Len(opts[i][2].l) : opts[i][2].l[j] \notin {"GET", "POST"}

\* C17: NewClient returns an error and no client if no adapter is set, if the
\* TTL is zero, negative or not given, or if a method list passed contains a
\* method other than GET and POST; in every other case it returns a client
\* and no error.
C17_NewClientFailsOnBadSettings ==
  \A t \in load.workers :
    reqs[t].pc = "client" =>
      /\ reqs[t].err <=> \/ NoAdapterSet(reqs[t].opts)
                         \/ TTLNotPositive(reqs[t].opts)
                         \/ UnsupportedMethodListed(reqs[t].opts)
      /\ reqs[t].err <=> reqs[t].client.nil

\* C17: NewClient has failed on a list with PUT in it though an adapter and a
\* positive TTL were given.
C17_Witness ==
  \E t \in load.workers :
    /\ reqs[t].pc = "client"
    /\ reqs[t].err /\ reqs[t].client.nil
    /\ ~NoAdapterSet(reqs[t].opts)
    /\ ~TTLNotPositive(reqs[t].opts)
    /\ UnsupportedMethodListed(reqs[t].opts)

NoPolicy(opts) ==
  LET S == Passed(opts, "AdapterWithAlgorithm")
  IN  S = {} \/ LastArg(opts, S) = ""

NoBudget(opts) == \A i \in Passed(opts, "AdapterWithStorageCapacity") : opts[i][2] <= 0

CapacityAtMostOne(opts) ==
  LET S == Passed(opts, "AdapterWithCapacity")
  IN  S = {} \/ \E i \in S : opts[i][2] <= 1

\* C18: NewAdapter returns an error and no adapter if no algorithm is
\* configured, or if the capacity is at most 1 (or not given) and no byte
\* budget is configured; an adapter it returns has a non-empty algorithm and
\* either a capacity above 1 or a positive byte budget.
C18_NewAdapterFailsOnBadSettings ==
  \A t \in load.workers :
    reqs[t].pc = "adapter" =>
      /\ (NoPolicy(reqs[t].opts)
            \/ (CapacityAtMostOne(reqs[t].opts) /\ NoBudget(reqs[t].opts)))
           => reqs[t].err
      /\ reqs[t].err <=> reqs[t].adapter.nil
      /\ ~reqs[t].err =>
           /\ reqs[t].adapter.a.algorithm # ""
           /\ reqs[t].adapter.a.capacity > 1 \/ reqs[t].adapter.a.storageMax > 0

\* C18: NewAdapter has failed on a capacity of at most 1 given without a byte
\* budget, though an algorithm was configured.
C18_Witness ==
  \E t \in load.workers :
    /\ reqs[t].pc = "adapter"
    /\ reqs[t].err /\ reqs[t].adapter.nil
    /\ ~NoPolicy(reqs[t].opts)
    /\ Passed(reqs[t].opts, "AdapterWithCapacity") # {}
    /\ CapacityAtMostOne(reqs[t].opts) /\ NoBudget(reqs[t].opts)

NoMethodList(opts) ==
  LET S == Passed(opts, "ClientWithMethods")
  IN  S = {} \/ LastArg(opts, S).nil

\* C19: a client built without a method list caches GET only: its method
\* set is {GET}, a GET request it receives goes to the adapter (Get, or
\* Release on a refresh) and a request with any other method, POST included,
\* is passed through.
C19_DefaultMethodIsGet ==
  \A t \in load.workers :
    (~reqs[t].client.nil /\ NoMethodList(reqs[t].opts)) =>
      /\ cfg.methods = {"GET"}
      /\ reqs[t].pc # "client" =>
           /\ reqs[t].pc \in {"passthrough", "get", "release"}
           /\ reqs[t].pc = "passthrough" <=> reqs[t].req.method # "GET"

\* C19: a client built without a method list has passed a POST request
\* through.
C19_Witness ==
  \E t \in load.workers :
    /\ ~reqs[t].client.nil /\ NoMethodList(reqs[t].opts)
    /\ reqs[t].pc = "passthrough"
    /\ reqs[t].req.method = "POST"

\* the entry a caller of the codec encoded
Encoded(t) == reqs[t].log[1][2]

\* C20: the entry decoded from the bytes of an entry has the bytes of its
\* Value, the names of its Header, its Expiration, its LastAccess and its
\* Frequency, an empty Value and an empty Header included.
C20_CodecRoundTrip ==
  \A t \in load.workers :
    reqs[t].pc = "decoded" =>
      /\ reqs[t].response.Value.b = Encoded(t).Value.b
      /\ reqs[t].response.Header.m = Encoded(t).Header.m
      /\ reqs[t].response.Expiration = Encoded(t).Expiration
      /\ reqs[t].response.LastAccess = Encoded(t).LastAccess
      /\ reqs[t].response.Frequency = Encoded(t).Frequency

\* C20: an entry with an empty Value and an empty Header, and nothing else
\* zero, has been encoded and decoded.
C20_Witness ==
  \E t \in load.workers :
    /\ reqs[t].pc = "decoded"
    /\ Encoded(t).Value = BytesOf(<<>>)
    /\ Encoded(t).Header = HeaderOf({})
    /\ Encoded(t).Expiration > ZeroTime
    /\ Encoded(t).LastAccess > ZeroTime
    /\ Encoded(t).Frequency > 0

\* the bytes are not the encoding of an entry
Undecodable(b) == \E i \in 1..Len(b) : b[i][1] \notin 1..5

\* C21: a request for which Get returns bytes that do not decode to an entry
\* is not served from the cache: the key is released, the downstream handler
\* is invoked and its response is served.
C21_MalformedIsMiss ==
  \A t \in load.workers :
    LET r == reqs[t]
    IN  (r.got.ok /\ Undecodable(r.got.b))
          => /\ r.pc \in {"release", "releaseDel", "downstream", "populate", "done"}
             /\ r.pc = "done" => /\ r.log = <<"Get", "Release", "Down", "Set">>
                                    \/ r.log = <<"Get", "Release", "Down">>
                                 /\ r.out.outcome = "ServedFresh"
                                 /\ r.out.body = r.rec.body

\* the same of the bytes in which the decoder fails before it has stored a
\* field with an Expiration
MalformedFromStartIsMiss ==
  \A t \in load.workers :
    LET r == reqs[t]
    IN  (r.got.ok /\ Undecodable(r.got.b) /\ Decodable(r.got.b) = <<>>)
          => /\ r.pc \in {"release", "releaseDel", "downstream", "populate", "done"}
             /\ r.pc = "done" => /\ r.log = <<"Get", "Release", "Down", "Set">>
                                    \/ r.log = <<"Get", "Release", "Down">>
                                 /\ r.out.outcome = "ServedFresh"
                                 /\ r.out.body = r.rec.body

\* the body of the POST request r cannot be read, and POST is cacheable
BodyReadFails(r) ==
  r.pc # "idle" /\ r.req.method = "POST" /\ "POST" \in cfg.methods
    /\ r.req.body.kind = "err"

\* C22: a POST request whose body cannot be read is passed to the downstream
\* handler exactly once; the middleware performs no Get, Set or Release for
\* it, the store stays as it was, and the response is the downstream's.
C22_BodyReadErrorPassesThrough ==
  /\ [](\A t \in load.workers :
          LET r == reqs[t]
          IN  BodyReadFails(r)
                => /\ r.pc \in {"passthrough", "done"}
                   /\ ~Called(r, "Get") /\ ~Called(r, "Set") /\ ~Called(r, "Release")
                   /\ r.pc = "done" => /\ r.log = <<"Down">>
                                       /\ r.out.outcome = "PassThrough")
  /\ [][\A t \in load.workers :
          (BodyReadFails(reqs[t]) /\ reqs'[t] # reqs[t])
            => (store' = store /\ cur' = cur)]_vars

\* C22: a POST request whose body could not be read has been answered by the
\* downstream handler while the store held an entry.
C22_Witness ==
  \E t \in load.workers :
    /\ BodyReadFails(reqs[t])
    /\ reqs[t].pc = "done"
    /\ reqs[t].log = <<"Down">>
    /\ reqs[t].out.outcome = "PassThrough"
    /\ store # <<>>

\* the POST request r carries a body, and POST is cacheable
CacheablePostWithBody(r) ==
  r.pc # "idle" /\ r.req.method = "POST" /\ "POST" \in cfg.methods
    /\ r.req.body.kind = "bytes"

\* C23: the middleware reads the body of a cacheable POST request once, and
\* the downstream handler, when it is invoked for the request, reads from the
\* body it is given exactly the bytes the client sent.
C23_BodyRestoredForDownstream ==
  \A t \in load.workers :
    CacheablePostWithBody(reqs[t])
      => /\ BodyForNext(cfg, reqs[t].req).reads = 1
         /\ Called(reqs[t], "Down") => reqs[t].nextBody = reqs[t].req.body.b

\* C23: the downstream handler has answered a POST request that missed and
\* carried a body that is not empty.
C23_Witness ==
  \E t \in load.workers :
    /\ CacheablePostWithBody(reqs[t])
    /\ reqs[t].req.body.b # <<>>
    /\ reqs[t].pc = "done"
    /\ reqs[t].log = <<"Get", "Down", "Set">>
    /\ reqs[t].nextBody = reqs[t].req.body.b

\* C24: Set on a key that is present replaces the bytes stored under it and
\* evicts nothing: the keys of the store and the bytes under the other keys
\* are as before, whatever the number of entries and the capacity.
C24_OverwriteEvictsNothing ==
  \A k \in DOMAIN store, p \in Payloads :
    \A o \in SetOutcomes(cfg, store, cur, k, p, now) :
      /\ ~o.hung
      /\ DOMAIN o.store = DOMAIN store
      /\ o.store[k] = p
      /\ \A x \in (DOMAIN store) \ {k} : o.store[x] = store[x]

\* C24: the store is at or above its capacity and holds a key whose bytes a
\* Set would change.
C24_Witness ==
  /\ cfg.capacity > 1
  /\ Cardinality(DOMAIN store) >= cfg.capacity
  /\ \E k \in DOMAIN store, p \in Payloads : store[k] # p

\* C25: when Release(key) returns the key is absent, so that a Get that
\* follows finds nothing, and the other entries are as they were; a Release
\* that finds the key absent changes neither the map nor the byte counter.
C25_ReleaseRemovesOnlyItsKey ==
  [][\A t \in load.workers :
       /\ (reqs[t].pc = "releaseDel" /\ reqs'[t].pc # "releaseDel")
            => /\ reqs[t].key \notin DOMAIN store'
               /\ \A x \in (DOMAIN store) \ {reqs[t].key} :
                    x \in DOMAIN store' /\ store'[x] = store[x]
               /\ DOMAIN store' \subseteq DOMAIN store
       /\ (reqs[t].pc = "release" /\ reqs'[t] # reqs[t]
             /\ reqs[t].key \notin DOMAIN store)
            => /\ store' = store /\ cur' = cur
               /\ reqs'[t].pc = reqs[t].relNext]_vars

\* C25: a Release has removed its key from a store that holds other entries.
C25_Witness ==
  \E t \in load.workers :
    /\ reqs[t].pc = "idle"
    /\ reqs[t].relOk
    /\ reqs[t].key \notin DOMAIN store
    /\ Cardinality(DOMAIN store) >= 2

\* the hit of worker t writes its entry back in this step
WritesBack(t) == reqs[t].pc = "hitset" /\ reqs'[t].pc = "done"

\* the entry a hit writes back is the entry it read, with Frequency one
\* higher and LastAccess the time of the hit
StatisticsOnly(t) ==
  LET read == BytesToResponse(reqs[t].got.b)
      written == BytesToResponse(store'[reqs[t].key])
  IN  /\ written.Frequency = read.Frequency + 1
      /\ written.LastAccess = reqs[t].checkedAt
      /\ written.Value.b = read.Value.b
      /\ written.Header.m = read.Header.m
      /\ written.Expiration = read.Expiration

\* C26: a hit changes access statistics only: the entry written back has the
\* Frequency of the entry read plus one, LastAccess the current time, and the
\* same Value, Header and Expiration; and the Expiration stored under a key
\* does not change from the creation of the entry to its removal: the
\* write-back of a hit leaves the Expiration of the entry it overwrites.
C26_HitChangesStatisticsOnly ==
  [][\A t \in load.workers :
       WritesBack(t)
         => /\ StatisticsOnly(t)
            /\ reqs[t].key \in DOMAIN store
                 => BytesToResponse(store'[reqs[t].key]).Expiration
                      = BytesToResponse(store[reqs[t].key]).Expiration]_vars

\* the first half alone: what a hit writes back is what it read, but for the
\* statistics
HitWritesBackWhatItRead ==
  [][\A t \in load.workers : WritesBack(t) => StatisticsOnly(t)]_vars

\* the miss of worker t stores its entry in this step
StoresNewEntry(t) ==
  reqs[t].pc = "populate" /\ reqs'[t].pc = "done" /\ Called(reqs'[t], "Set")

\* C27: the entry the middleware creates on a miss has Frequency 1,
\* LastAccess the time of its creation and Expiration that time plus the
\* TTL, carries the body and the headers the downstream handler produced, and
\* is in the store under the key computed for the request.
C27_NewEntryAsSpecified ==
  [][\A t \in load.workers :
       StoresNewEntry(t)
         => /\ reqs[t].key = EntryOf(cfg, reqs[t].req).key
            /\ reqs[t].key \in DOMAIN store'
            /\ LET e == BytesToResponse(store'[reqs[t].key])
               IN  /\ e.Frequency = 1
                   /\ e.LastAccess = now
                   /\ e.Expiration = now + cfg.ttl
                   /\ e.Value.b = reqs[t].rec.body
                   /\ e.Header.m = reqs[t].rec.header]_vars

\* C27: a miss at a time after the start has stored its entry, and the entry
\* is still in the store.
C27_Witness ==
  \E t \in load.workers :
    /\ reqs[t].pc = "done"
    /\ reqs[t].log = <<"Get", "Down", "Set">>
    /\ reqs[t].key \in DOMAIN store
    /\ now > 1
    /\ BytesToResponse(store[reqs[t].key]).Frequency = 1
    /\ BytesToResponse(store[reqs[t].key]).LastAccess = now
    /\ BytesToResponse(store[reqs[t].key]).Expiration = now + cfg.ttl

\* the request of worker t was served from the cache
ServedFromCache(t) ==
  reqs[t].pc = "done" /\ reqs[t].out.outcome = "ServedFromCache"

\* C28: the body served on a hit is the body the downstream handler produced
\* on the request that populated the entry, and the stored headers the hit
\* emits are the headers of that downstream response: a hit on an entry that
\* is as its population stored it serves the body and the headers of that
\* population; every hit serves the Value and the Header of the bytes it
\* read; and those survive every write-back unchanged.
C28_HitServesPopulatingResponse ==
  /\ [](\A t \in load.workers :
          (ServedFromCache(t) /\ reqs[t].seen.stored /\ reqs[t].seen.intact)
            => /\ reqs[t].out.body = reqs[t].seen.body
               /\ reqs[t].out.header \ {"Expires"} = reqs[t].seen.header)
  /\ [][\A t \in load.workers :
          (WritesBack(t) /\ ServedFromCache(t)')
            => LET read == BytesToResponse(reqs[t].got.b)
                   written == BytesToResponse(store'[reqs[t].key])
               IN  /\ reqs'[t].out.body = read.Value.b
                   /\ reqs'[t].out.header \ {"Expires"} = read.Header.m
                   /\ written.Value.b = read.Value.b
                   /\ written.Header.m = read.Header.m]_vars

\* C28: a request is served from the cache the body and the headers of the
\* second invocation of the downstream handler, which populated the entry.
C28_Witness ==
  \E t \in load.workers :
    /\ ServedFromCache(t)
    /\ reqs[t].seen.stored /\ reqs[t].seen.intact
    /\ reqs[t].seen.id = 2
    /\ reqs[t].out.body = <<2>>
    /\ "Content-Type" \in reqs[t].out.header

WritesExpires(t) ==
  /\ reqs[t].pc \in {"hitset", "populate"}
  /\ reqs'[t].pc = "done"
  /\ cfg.writeExpiresHeader
  /\ "Expires" \in reqs'[t].out.header

\* the time the Expires header of that response states: on a hit the
\* Expiration of the response served, on a miss expires = now.Add(c.ttl)
ExpiresWritten(t) ==
  IF reqs[t].pc = "hitset" THEN reqs[t].response.Expiration ELSE now + cfg.ttl

\* when the response is written the store holds, under the key of the
\* request, an entry with the Expiration the header states
EntryExpiresAsWritten(t) ==
  /\ reqs[t].key \in DOMAIN store'
  /\ BytesToResponse(store'[reqs[t].key]).Expiration = ExpiresWritten(t)

\* C30: with writeExpiresHeader enabled, whenever the middleware itself
\* writes an Expires header on a response, the store holds at that moment an
\* entry for the key of the request with exactly that expiration: on a hit
\* the entry served, on a miss the entry just stored.
C30_ExpiresMatchesStoredEntry ==
  [][\A t \in load.workers : WritesExpires(t) => EntryExpiresAsWritten(t)]_vars

\* the same, for the responses the middleware stored or served from the
\* store: hits, and misses whose downstream status is below 400
ExpiresMatchesWhenStored ==
  [][\A t \in load.workers :
       (WritesExpires(t) /\ (reqs[t].pc = "populate" => reqs[t].rec.status < 400))
         => EntryExpiresAsWritten(t)]_vars

\* no call of the adapter is in progress
Quiescent == \A t \in load.workers : reqs[t].pc = "idle"

\* C32: with byte-size tracking enabled, at every quiescent point after any
\* interleaving of Set (insert and overwrite), Release and evictions, the
\* counter storage.cur equals the sum of the lengths of the stored payloads.
C32_ByteAccountingExact ==
  (cfg.storageMax > 0 /\ Quiescent) => cur = StoredBytes(store)

\* request u was a forced or an expiry-triggered miss for key k (it called
\* Release), has stored its entry, and that entry is the one the store holds
Repopulated(u, k) ==
  /\ reqs[u].pc = "done"
  /\ reqs[u].key = k
  /\ Called(reqs[u], "Release") /\ Called(reqs[u], "Set")
  /\ k \in DOMAIN store
  /\ BytesToResponse(store[k]).Value.b = reqs[u].rec.body

\* C33: once a refresh request or the repopulation of an expired entry has
\* stored a new entry under key K, no hit that read the older entry writes
\* it back over the new one: the write-back of a hit leaves under K the value
\* the repopulation stored, so that the store holds the newest value for K
\* when all requests have completed.
C33_StaleNeverWrittenBack ==
  [][\A t, u \in load.workers :
       (WritesBack(t) /\ Repopulated(u, reqs[t].key))
         => BytesToResponse(store'[reqs[t].key]).Value.b = reqs[u].rec.body]_vars

\* the request of worker t was served the entry that the request seen.req
\* populated
ServedPopulationOf(t) ==
  /\ ServedFromCache(t)
  /\ reqs[t].seen.id # 0
  /\ reqs[t].seen.stored /\ reqs[t].seen.intact
  /\ reqs[t].out.body = reqs[t].seen.body

\* C34: a response produced for a POST request is stored only under the
\* body-aware key, never under the key of the GET request for the same URL,
\* and is never served to a GET request; a response produced for a GET is
\* never served to a POST; for every body, the empty one included, and also
\* when the request carries the refresh parameter.
C34_MethodIsolation ==
  /\ [](\A t \in load.workers :
          ServedPopulationOf(t) => reqs[t].seen.req.method = reqs[t].req.method)
  /\ [][\A t \in load.workers :
          (StoresNewEntry(t) /\ reqs[t].req.method = "POST")
            => reqs[t].key
                 # EntryOf(cfg, Request("GET", reqs[t].req.url.rawQuery, NoBody)).key]_vars

\* the same for POST requests with a body of at least one byte and without
\* the refresh parameter, and for the GET requests
IsolationOfPostsWithBody ==
  \A t \in load.workers :
    LET plain(r) == r.method = "GET" \/ (r.body.b # <<>> /\ r.url.rawQuery # QRefreshA)
    IN  (ServedPopulationOf(t) /\ plain(reqs[t].req) /\ plain(reqs[t].seen.req))
          => reqs[t].seen.req.method = reqs[t].req.method

\* C35: whenever evict runs on a non-empty store it removes exactly one
\* entry, for each of the four policies and for every combination of stored
\* lastAccess and frequency values.
C35_EvictRemovesExactlyOne ==
  store # <<>>
    => \A e \in EvictOutcomes(cfg.algorithm, [store |-> store, cur |-> cur], now) :
         /\ Cardinality(Evicted(store, e.store)) = 1
         /\ DOMAIN e.store \subseteq DOMAIN store

\* evict never removes more than one entry, and removes the entry its scan
\* selected whenever it selected one
EvictRemovesAtMostOne ==
  \A o \in RangeOrders(store) :
    LET s == EvictSelect(cfg.algorithm, store, o, now)
        e == evict(cfg.algorithm, store, cur, o, now)
    IN  /\ Cardinality(Evicted(store, e.store)) <= 1
        /\ s.hit => Evicted(store, e.store) = {s.selectedKey}

\* C36: evict never removes an entry that its scan did not select: when the
\* scan selects no victim the map is left as it was, an entry under key 0
\* included, and whenever evict deletes an entry it deducts the length of
\* that entry from the byte counter.
C36_EvictRemovesOnlySelected ==
  \A o \in RangeOrders(store) :
    LET s == EvictSelect(cfg.algorithm, store, o, now)
        e == evict(cfg.algorithm, store, cur, o, now)
    IN  /\ ~s.hit => e.store = store
        /\ \A k \in Evicted(store, e.store) :
             /\ s.hit /\ k = s.selectedKey
             /\ e.cur = StorageDel(cur, BytesLen(store[k]))

\* the number of times the request invoked the downstream handler
Downs(r) == Cardinality({i \in 1..Len(r.log) : r.log[i] = "Down"})

\* a request that has ended has one of the three outcomes, with the
\* downstream handler invoked as that outcome says
EndedAsSpecified(r) ==
  r.pc = "done"
    => /\ r.out.outcome \in {"PassThrough", "ServedFromCache", "ServedFresh"}
       /\ Downs(r) = IF r.out.outcome = "ServedFromCache" THEN 0 ELSE 1

\* C37: every request the middleware handles ends, in exactly one of the
\* outcomes PassThrough, ServedFromCache and ServedFresh, and invokes the
\* downstream handler at most once: not at all when served from the cache,
\* once when passed through or served fresh.
C37_EveryRequestEnds ==
  /\ [](\A t \in LiveWorkers : EndedAsSpecified(reqs[t]) /\ Downs(reqs[t]) <= 1)
  /\ \A t \in LiveWorkers :
       (reqs[t].pc \notin {"idle", "done"}) ~> (reqs[t].pc = "done")

\* the same on the adapter limited by entry count, and what holds of the
\* requests that end on either adapter
EndsWithoutBudget ==
  /\ [](\A t \in LiveWorkers : EndedAsSpecified(reqs[t]) /\ Downs(reqs[t]) <= 1)
  /\ \A t \in LiveWorkers :
       (cfg.storageMax = 0 /\ reqs[t].pc \notin {"idle", "done"})
         ~> (reqs[t].pc = "done")

\* the request went through the lookup, and has called Release only after
\* a Get that found an entry expired at that time
LookupOnly(r) ==
  /\ ~r.refresh
  /\ r.log # <<>> => r.log[1] = "Get"
  /\ Called(r, "Release")
       => r.got.ok /\ ~IsHit(BytesToResponse(r.got.b).Expiration, r.checkedAt)

\* C38: when no refresh key is configured no request triggers invalidation:
\* every cacheable request, whatever its query string, a parameter with the
\* empty name included, goes through the lookup and is never a forced miss,
\* and the middleware releases a key only on finding an expired entry.
C38_NoRefreshKeyNoInvalidation ==
  \A t \in load.workers :
    (cfg.refreshKey = <<>> /\ reqs[t].pc # "idle"
       /\ cacheableMethod(cfg, reqs[t].req.method))
      => LookupOnly(reqs[t])

\* the same for the requests whose query has no parameter with the empty
\* name
LookupOnlyWhenParametersNamed ==
  \A t \in load.workers :
    (cfg.refreshKey = <<>> /\ reqs[t].pc # "idle"
       /\ cacheableMethod(cfg, reqs[t].req.method)
       /\ <<>> \notin DOMAIN Query(reqs[t].req.url.rawQuery))
      => LookupOnly(reqs[t])

\* goroutine g is the removal of an eviction: Evict has selected its victim
\* and the victim is not removed yet
EvictionPending(g) ==
  /\ reqs[g].log = <<"Evict">>
  /\ reqs[g].pc \in {"lock", "Release"}

\* C31: in the legacy mutex adapter eviction is one atomic critical
\* section: from the moment Evict has selected its victim to the moment that
\* victim is removed no other Get, Set or Release on the store takes effect,
\* and the entry removed is the victim of the policy for the content of the
\* store at the time of the removal.
C31_EvictionAtomic ==
  [][\A g \in Spawned :
       EvictionPending(g)
         => /\ \A t \in load.workers \ {g} :
                 reqs[t].pc \in {"Get", "Set", "Release"} => reqs'[t].pc = reqs[t].pc
            /\ MemoryRelease(g)
                 => \E o \in RangeOrders(store) :
                      reqs[g].key = MemorySelect(cfg.algorithm, store, o, now)]_vars

\* the scan itself runs under the lock: no thread changes the map while
\* another is in lru, mru, lfu or mfu
ScanUnderLock ==
  \A t \in Callers :
    reqs[t].pc = "Evict"
      => /\ mutex.writer = t
         /\ \A u \in load.workers \ {t} : reqs[u].pc \notin {"Get", "Set", "Release", "Evict"}

\* the next step of thread t reads or writes the map
AtMapAccess(t) ==
  reqs[t].pc \in {"Get", "SetEvict", "SetInsert", "relRead", "relDelete"}

\* C39: in the adapter with the single mutex every access to the map is
\* made by a thread that holds the mutex: a Release that the middleware
\* issues while another request is in Set or Get neither reads the map nor
\* deletes from it unguarded.
C39_MapAccessUnderMutex ==
  \A t \in load.workers : AtMapAccess(t) => mutex.writer = t

\* Get and Set, and the eviction inside Set, do access the map under the mutex
GetAndSetUnderMutex ==
  \A t \in load.workers :
    reqs[t].pc \in {"Get", "SetEvict", "SetInsert"}
      => /\ mutex.writer = t
         /\ \A u \in load.workers \ {t} : reqs[u].pc \notin {"Get", "SetEvict", "SetInsert"}

====
